---- MODULE Spec2Model ----
(***************************************************************************)
(* Model of the resumable, optionally encrypted backup engine:             *)
(*   retry_steps_2.rs          the stepwise driver                         *)
(*   backup_steps.rs           start and the Diff/Upload/UpdateHotData     *)
(*                             steps                                       *)
(*   snapshot_upload_stream_2.rs, chunks_stream.rs, encrypt_stream.rs      *)
(*                             the byte pipeline of the Upload step        *)
(* Bytes are naturals 0..255; an optional value is a sequence of length 0  *)
(* (None) or 1 (Some).                                                     *)
(***************************************************************************)
EXTENDS Integers, Sequences, FiniteSets, TLC

\* ------------------------------------------------------------------------
\* Program constants (scaled down; config.rs itself foresees small values
\* "for testing with small files").
\* ------------------------------------------------------------------------
MAX_OBJECT_SIZE == 24
ENCRYPTION_CHUNK_SIZE == 4
TAG_SIZE == 16

\* ------------------------------------------------------------------------
\* Bounds of the model.
\* ------------------------------------------------------------------------
\* Bytes a file read returns at most in one chunk (ReaderStream's capacity).
ReadChunkLen == 5
\* Commands (backup start / backup continue) one process may run.
MaxRuns == 3
\* Times one run may be handed back an Upload step it cannot advance.
MaxSpins == 3
\* take_bytes_stream alone: upstream chunks, their lengths, the bytes asked for.
MaxChunks == 3
MaxChunkLen == 4
MaxTake == 3
\* optimize_diff_entries alone: the entries of an input list.
MaxEntries == 3
\* check-password and change-password alone: the salts change-password draws.
MaxSaltDraws == 2
\* parse_zfs_diff_output alone: the lines of an output.
MaxLines == 2

None == <<>>
Some(x) == <<x>>
IsSome(o) == Len(o) = 1
Unwrap(o) == o[1]

Min(a, b) == IF a < b THEN a ELSE b
Max(a, b) == IF a > b THEN a ELSE b
DivCeil(a, b) == (a + b - 1) \div b

RECURSIVE Flatten(_)
\* The bytes of a sequence of chunks, in order.
Flatten(chunks) ==
    IF chunks = <<>> THEN <<>> ELSE Head(chunks) \o Flatten(Tail(chunks))

Drop(s, k) == SubSeq(s, k + 1, Len(s))

\* ------------------------------------------------------------------------
\* Record encoding (postcard) and the varint length prefix.
\* ------------------------------------------------------------------------
RECURSIVE Varint(_)
\* varint_simd::encode: LEB128, low 7 bits first, high bit = continuation.
Varint(n) ==
    IF n < 128 THEN <<n>> ELSE <<128 + (n % 128)>> \o Varint(n \div 128)

PostcardPath(p) == Varint(Len(p)) \o p

PostcardFileType(t) == IF t = "Directory" THEN <<0>> ELSE <<1>>

\* Option<SystemTime>: SystemTime is {secs_since_epoch, nanos_since_epoch}.
PostcardOptTime(t) ==
    IF IsSome(t)
    THEN <<1>> \o Varint(Unwrap(t).secs) \o Varint(Unwrap(t).nanos)
    ELSE <<0>>

\* Option<FileMetaData>, fields in declaration order.
PostcardOptMeta(m) ==
    IF IsSome(m)
    THEN <<1>> \o PostcardOptTime(Unwrap(m).accessed)
               \o PostcardOptTime(Unwrap(m).created)
               \o PostcardOptTime(Unwrap(m).modified)
               \o Varint(Unwrap(m).len)
    ELSE <<0>>

PostcardDiffType(d) ==
    CASE d.tag = "Removed"  -> <<0>>
      [] d.tag = "Created"  -> <<1>> \o PostcardOptMeta(d.data)
      [] d.tag = "Modified" -> <<2>> \o PostcardOptMeta(d.data)
      [] d.tag = "Renamed"  -> <<3>> \o PostcardPath(d.to)

\* postcard::to_allocvec(&diff_entry)
Postcard(e) ==
    PostcardPath(e.path) \o PostcardFileType(e.file_type)
        \o PostcardDiffType(e.diff_type)

\* DiffType::content_data().copied().flatten(): the file metadata of a
\* Created/Modified entry that has one.
ContentData(e) ==
    IF e.diff_type.tag \in {"Created", "Modified"} THEN e.diff_type.data
    ELSE None

\* ------------------------------------------------------------------------
\* The snapshot file system: the bytes of the file at `path` (len bytes).
\* ------------------------------------------------------------------------
FileBytes(path, len) == [j \in 1..len |-> (path[Len(path)] + 3 * j) % 256]

RECURSIVE ReadChunks(_)
\* ReaderStream: the bytes of an open file from its position, in chunks.
ReadChunks(bytes) ==
    IF bytes = <<>> THEN <<>>
    ELSE <<SubSeq(bytes, 1, Min(ReadChunkLen, Len(bytes)))>>
             \o ReadChunks(Drop(bytes, Min(ReadChunkLen, Len(bytes))))

\* ------------------------------------------------------------------------
\* snapshot_upload_stream (snapshot_upload_stream_2.rs): the chunks one diff
\* entry contributes, and start_index as the closure leaves it.
\* ------------------------------------------------------------------------
EntryChunks(e, start_index) ==
    LET postcard_bytes == Postcard(e)
        postcard_size_bytes == Varint(Len(postcard_bytes))
        skip1 == Min(start_index, Len(postcard_size_bytes))
        start1 == start_index - skip1
        chunk1 == IF skip1 < Len(postcard_bytes)
                  THEN <<Drop(postcard_size_bytes, skip1)>> ELSE <<>>
        skip2 == Min(start1, Len(postcard_bytes))
        start2 == start1 - skip2
        \* the record is pushed whole, not from skip2 on
        chunk2 == IF skip2 < Len(postcard_bytes)
                  THEN <<postcard_bytes>> ELSE <<>>
        meta == ContentData(e)
        file == FileBytes(e.path, Unwrap(meta).len)
    IN  IF IsSome(meta)
        THEN IF start2 > 0
             THEN IF start2 >= Unwrap(meta).len
                  THEN [chunks |-> chunk1 \o chunk2,
                        start_index |-> start2 - Unwrap(meta).len]
                  \* seek to start_index; start_index itself stays as it is
                  ELSE [chunks |-> chunk1 \o chunk2
                                     \o ReadChunks(Drop(file, start2)),
                        start_index |-> start2]
             ELSE [chunks |-> chunk1 \o chunk2 \o ReadChunks(file),
                   start_index |-> start2]
        ELSE [chunks |-> chunk1 \o chunk2, start_index |-> start2]

RECURSIVE snapshot_upload_stream(_, _)
\* The chunks of the stream for diff_entries started at start_index.
snapshot_upload_stream(diff_entries, start_index) ==
    IF diff_entries = <<>> THEN <<>>
    ELSE LET r == EntryChunks(Head(diff_entries), start_index)
         IN  r.chunks \o snapshot_upload_stream(Tail(diff_entries), r.start_index)

\* ------------------------------------------------------------------------
\* Diff lists of the model.
\* ------------------------------------------------------------------------
NoTimes(len) ==
    [accessed |-> None, created |-> None, modified |-> None, len |-> len]

RemovedEntry(c, t) ==
    [path |-> <<c>>, file_type |-> t, diff_type |-> [tag |-> "Removed"]]
CreatedDir(c) ==
    [path |-> <<c>>, file_type |-> "Directory",
     diff_type |-> [tag |-> "Created", data |-> None]]
FileEntry(c, tag, len) ==
    [path |-> <<c>>, file_type |-> "RegularFile",
     diff_type |-> [tag |-> tag, data |-> Some(NoTimes(len))]]
TimedFileEntry(c, len) ==
    [path |-> <<c>>, file_type |-> "RegularFile",
     diff_type |-> [tag |-> "Modified",
                    data |-> Some([accessed |-> Some([secs |-> 200, nanos |-> 5]),
                                   created |-> None,
                                   modified |-> Some([secs |-> 3, nanos |-> 0]),
                                   len |-> len])]]
RenamedEntry(c, d) ==
    [path |-> <<c>>, file_type |-> "RegularFile",
     diff_type |-> [tag |-> "Renamed", to |-> <<d>>]]

\* ------------------------------------------------------------------------
\* Size accounting of the Upload step (backup_steps.rs).
\* ------------------------------------------------------------------------
RECURSIVE UnencryptedSize(_)
\* The try_fold over the diff: varint prefix + record + file content.
UnencryptedSize(diff) ==
    IF diff = <<>> THEN 0
    ELSE LET postcard_len == Len(Postcard(Head(diff)))
             meta == ContentData(Head(diff))
         IN  Len(Varint(postcard_len)) + postcard_len
               + (IF IsSome(meta) THEN Unwrap(meta).len ELSE 0)
               + UnencryptedSize(Tail(diff))

SnapshotUploadSize(cfg, diff) ==
    IF cfg.encryption
    THEN UnencryptedSize(diff)
           + DivCeil(UnencryptedSize(diff), ENCRYPTION_CHUNK_SIZE) * TAG_SIZE
    ELSE UnencryptedSize(diff)

\* A count that rounds down and adds one.
TotalObjectsCountFloorPlusOne(cfg, diff) ==
    Max(SnapshotUploadSize(cfg, diff) \div MAX_OBJECT_SIZE + 1,
        IF cfg.create_empty_objects THEN 1 ELSE 0)

TotalObjectsCount(cfg, diff) ==
    Max(DivCeil(SnapshotUploadSize(cfg, diff), MAX_OBJECT_SIZE),
        IF cfg.create_empty_objects THEN 1 ELSE 0)

ObjectLen(cfg, diff, uploaded_objects) ==
    Min(SnapshotUploadSize(cfg, diff) - uploaded_objects * MAX_OBJECT_SIZE,
        MAX_OBJECT_SIZE)

\* ------------------------------------------------------------------------
\* The chunked cipher (encrypt_stream.rs) over try_bytes_chunks.
\* ------------------------------------------------------------------------
RECURSIVE BytesChunks(_)
\* try_bytes_chunks(ENCRYPTION_CHUNK_SIZE): exact-size chunks, the last one
\* possibly short.
BytesChunks(bytes) ==
    IF bytes = <<>> THEN <<>>
    ELSE <<SubSeq(bytes, 1, Min(ENCRYPTION_CHUNK_SIZE, Len(bytes)))>>
           \o BytesChunks(Drop(bytes, Min(ENCRYPTION_CHUNK_SIZE, Len(bytes))))

\* One AES-256-GCM STREAM-BE32 segment: every ciphertext byte depends on the
\* nonce, the chunk counter, the last-chunk flag, its position and its
\* plaintext byte; the 16 tag bytes depend on the whole chunk.
EncryptChunk(payload, nonce, counter, last) ==
    [j \in 1..(Len(payload) + TAG_SIZE) |->
        [nonce |-> nonce, counter |-> counter, last |-> last, pos |-> j,
         of |-> IF j <= Len(payload) THEN <<payload[j]>> ELSE payload]]

RECURSIVE EncryptFrom(_, _, _, _)
\* The map closure of encrypt: encrypt_next while chunks_encrypted + 1 <
\* total_chunks, else encrypt_last.
EncryptFrom(chunks, nonce, total_chunks, chunks_encrypted) ==
    IF chunks = <<>> THEN <<>>
    ELSE <<EncryptChunk(Head(chunks), nonce, chunks_encrypted,
                        ~(chunks_encrypted + 1 < total_chunks))>>
           \o EncryptFrom(Tail(chunks), nonce, total_chunks, chunks_encrypted + 1)

EncryptStream(plain_chunks, nonce, total_chunks) ==
    EncryptFrom(BytesChunks(Flatten(plain_chunks)), nonce, total_chunks, 0)

\* ------------------------------------------------------------------------
\* The stream nonce (backup_steps.rs 276-286).  A u64 is kept in three limbs,
\* value = hi * 2^48 + mid * 2^24 + lo with hi < 2^16 and mid, lo < 2^24.
\* ------------------------------------------------------------------------
U64(hi, mid, lo) == [hi |-> hi, mid |-> mid, lo |-> lo]

\* A byte order that puts the low byte first.
to_le_bytes(n) ==
    <<n.lo % 256, (n.lo \div 256) % 256, n.lo \div 65536,
      n.mid % 256, (n.mid \div 256) % 256, n.mid \div 65536,
      n.hi % 256, n.hi \div 256>>

\* u64::to_be_bytes
to_be_bytes(n) ==
    <<n.hi \div 256, n.hi % 256,
      n.mid \div 65536, (n.mid \div 256) % 256, n.mid % 256,
      n.lo \div 65536, (n.lo \div 256) % 256, n.lo % 256>>

\* bytes.split_at(1): Err ("Ran out of unique nonces") as None when the
\* first byte is not 0, else the other seven.
StreamNonce(count) ==
    LET bytes == to_be_bytes(count)
        unused == SubSeq(bytes, 1, 1)
        nonce == SubSeq(bytes, 2, 8)
    IN  IF unused # <<0>> THEN None ELSE Some(nonce)

\* remote_hot_data.snapshots.len() as u64
SnapshotsLen(snapshots) == U64(0, 0, Len(snapshots))

\* The stream the Upload step builds when it has none in memory
\* (backup_steps.rs 250-295), as the chunks it will yield.
BuildStream(cfg, diff, uploaded_objects, nonce) ==
    LET stream == snapshot_upload_stream(diff, uploaded_objects * MAX_OBJECT_SIZE)
    IN  IF cfg.encryption
        THEN EncryptStream(stream, nonce,
                           DivCeil(UnencryptedSize(diff), ENCRYPTION_CHUNK_SIZE))
        ELSE stream

\* ------------------------------------------------------------------------
\* The re-chunker (chunks_stream.rs).  A ChunksStreamOfStreams is
\* [stream: the upstream chunks not yet pulled, buffer: Option<Bytes>].
\* ------------------------------------------------------------------------
try_chunks_streams(chunks) == [stream |-> chunks, buffer |-> None]

RECURSIVE TakePolls(_, _, _, _, _, _)
\* take_bytes_stream(n_bytes) polled at most `polls` times: the unfold
\* closure from (inner, count); out are the bytes yielded so far.
TakePolls(inner, n_bytes, count, out, yields, polls) ==
    IF polls = 0 \/ count = n_bytes
    THEN [inner |-> inner, out |-> out, yields |-> yields, panic |-> FALSE]
    ELSE IF IsSome(inner.buffer)
    THEN TakePolls([inner EXCEPT !.buffer = None], n_bytes,
                   count + Len(Unwrap(inner.buffer)),
                   out \o Unwrap(inner.buffer), yields + 1, polls - 1)
    ELSE IF inner.stream = <<>>
    THEN [inner |-> inner, out |-> out, yields |-> yields, panic |-> FALSE]
    ELSE LET bytes == Head(inner.stream)
         IN  IF count + Len(bytes) >= n_bytes
             THEN IF count > n_bytes
                  \* n_bytes - count underflows: split_off panics
                  THEN [inner |-> inner, out |-> out, yields |-> yields,
                        panic |-> TRUE]
                  ELSE TakePolls([stream |-> Tail(inner.stream),
                                  buffer |-> Some(Drop(bytes, n_bytes - count))],
                                 n_bytes, n_bytes,
                                 out \o SubSeq(bytes, 1, n_bytes - count),
                                 yields + 1, polls - 1)
             ELSE TakePolls([stream |-> Tail(inner.stream), buffer |-> None],
                            n_bytes, count + Len(bytes), out \o bytes,
                            yields + 1, polls - 1)

\* A take that loses the rest of the chunk it split.
take_bytes_stream_loses_rest(inner, n_bytes) ==
    LET r == TakePolls(inner, n_bytes, 0, <<>>, 0, Len(inner.stream) + 2)
    IN  [r EXCEPT !.inner.buffer = None]

\* The take stream consumed to its end.
take_bytes_stream(inner, n_bytes) ==
    TakePolls(inner, n_bytes, 0, <<>>, 0, Len(inner.stream) + 2)

\* The take stream dropped after `polls` items.
take_bytes_partial(inner, n_bytes, polls) ==
    TakePolls(inner, n_bytes, 0, <<>>, 0, polls)

\* ------------------------------------------------------------------------
\* Paths of diff entries as PathBuf sees them: a sequence of components.
\* ------------------------------------------------------------------------
\* Ord for Path: component by component, a proper prefix first.
PathLess(p, q) ==
    \E k \in 1..(Min(Len(p), Len(q)) + 1) :
        /\ \A j \in 1..(k - 1) : p[j] = q[j]
        /\ \/ k > Len(p) /\ k <= Len(q)
           \/ k <= Len(p) /\ k <= Len(q) /\ p[k] < q[k]

\* Path::starts_with: base is a prefix of path, in whole components.
starts_with(path, base) ==
    Len(base) <= Len(path) /\ SubSeq(path, 1, Len(base)) = base

RECURSIVE InsertByPath(_, _)
\* Insert e behind every entry whose path is not greater (stable).
InsertByPath(sorted, e) ==
    IF sorted = <<>> THEN <<e>>
    ELSE IF PathLess(e.path, Head(sorted).path)
         THEN <<e>> \o sorted
         ELSE <<Head(sorted)>> \o InsertByPath(Tail(sorted), e)

RECURSIVE sort_by_key(_)
\* diff_entries.sort_by_key(|diff| diff.path.clone())
sort_by_key(entries) ==
    IF entries = <<>> THEN <<>>
    ELSE InsertByPath(sort_by_key(SubSeq(entries, 1, Len(entries) - 1)),
                      entries[Len(entries)])

\* Vec::remove(i), i counted from 0.
Remove(entries, i) ==
    SubSeq(entries, 1, i) \o SubSeq(entries, i + 2, Len(entries))

\* Vec::get(i), i counted from 0.
Get(entries, i) ==
    IF i >= 0 /\ i < Len(entries) THEN Some(entries[i + 1]) ELSE None

\* ------------------------------------------------------------------------
\* optimize_diff_entries (optimize_diff_entries.rs).
\* ------------------------------------------------------------------------
\* The Created-directory arm: the next entry lies under the folder.
FolderIsEmpty(entries, i) ==
    LET next == Get(entries, i + 1)
    IN  IF IsSome(next)
        THEN ~starts_with(Unwrap(next).path, entries[i + 1].path)
        ELSE TRUE

\* The Removed-file arm: the entry before is a removed directory the file
\* lies under.
ParentFolderRemoved(entries, i) ==
    LET maybe_parent_folder == Get(entries, i - 1)
    IN  /\ IsSome(maybe_parent_folder)
        /\ Unwrap(maybe_parent_folder).file_type = "Directory"
        /\ starts_with(entries[i + 1].path, Unwrap(maybe_parent_folder).path)
        /\ Unwrap(maybe_parent_folder).diff_type.tag = "Removed"

\* A loop body that removes every directory entry.
RemovesEveryDirectory(entries, i) == entries[i + 1].file_type = "Directory"

\* Whether the loop body removes entry i.
Removes(entries, i) ==
    LET diff_entry == entries[i + 1]
    IN  IF diff_entry.file_type = "Directory"
        THEN CASE diff_entry.diff_type.tag = "Modified" -> TRUE
               [] diff_entry.diff_type.tag = "Created" ->
                      ~FolderIsEmpty(entries, i)
               [] OTHER -> FALSE
        ELSE CASE diff_entry.diff_type.tag = "Removed" ->
                      ParentFolderRemoved(entries, i)
               [] OTHER -> FALSE

RECURSIVE OptimizeLoop(_, _)
\* The loop from index i: the body, then i += 1 whether or not it removed.
OptimizeLoop(entries, i) ==
    IF ~IsSome(Get(entries, i)) THEN entries
    ELSE IF Removes(entries, i)
         THEN OptimizeLoop(Remove(entries, i), i + 1)
         ELSE OptimizeLoop(entries, i + 1)

optimize_diff_entries(diff_entries) ==
    OptimizeLoop(sort_by_key(diff_entries), 0)

\* ------------------------------------------------------------------------
\* diff_or_first (diff_or_first.rs) and the resolution of the Diff step.
\* ------------------------------------------------------------------------
\* flat_map_unordered(None, ..).try_collect(): the items in the order their
\* futures complete, which is any order.
flat_map_unordered(items) ==
    {[i \in 1..Len(items) |-> items[f[i]]] :
        f \in {g \in [1..Len(items) -> 1..Len(items)] :
                   \A a, b \in 1..Len(items) : a # b => g[a] # g[b]}}

NotModifiedDirectory(diff) ==
    ~(diff.file_type = "Directory" /\ diff.diff_type.tag = "Modified")

\* The length of the file at a path of the snapshot.
FsLen(path) == Len(path) + 1

\* entry.map(|()| None): a zfs diff entry carries no length.
MapNone(e) ==
    IF e.diff_type.tag \in {"Created", "Modified"}
    THEN [e EXCEPT !.diff_type.data = None]
    ELSE e

\* The zfs diff branch: filter, map, sort by path.
diff_or_first_zfs(parsed) ==
    sort_by_key([i \in 1..Len(SelectSeq(parsed, NotModifiedDirectory)) |->
                    MapNone(SelectSeq(parsed, NotModifiedDirectory)[i])])

\* The directory walk branch: one Created entry per walked path, collected
\* in completion order.
WalkEntry(w) ==
    [path |-> w.path, file_type |-> w.file_type,
     diff_type |-> [tag |-> "Created",
                    data |-> IF w.file_type = "RegularFile"
                             THEN Some(FsLen(w.path)) ELSE None]]

diff_or_first_walk(walk) ==
    flat_map_unordered([i \in 1..Len(walk) |-> WalkEntry(walk[i])])

\* Path::strip_prefix: the components after the base, or an error.
strip_prefix(path, base) ==
    IF starts_with(path, base)
    THEN Some(SubSeq(path, Len(base) + 1, Len(path)))
    ELSE None

\* The closure of the walk branch on one (path, dir_entry, file_type): the
\* error of strip_prefix (None), or the entry.
WalkEntryStripped(w, mount_point) ==
    LET rel == strip_prefix(w.path, mount_point)
    IN  IF IsSome(rel)
        THEN Some(WalkEntry([path |-> Unwrap(rel), file_type |-> w.file_type]))
        ELSE None

\* diff_or_first: the results it can return (None is an error). The branch
\* of zfs diff keeps the paths as they were printed.
diff_or_first(previous_snapshot, raw, mount_point) ==
    IF previous_snapshot
    THEN {Some(diff_or_first_zfs(raw))}
    ELSE LET results == [i \in 1..Len(raw) |->
                            WalkEntryStripped(raw[i], mount_point)]
         IN  IF \E i \in 1..Len(raw) : results[i] = None
             THEN {None}
             ELSE {Some(d) : d \in flat_map_unordered(
                                      [i \in 1..Len(raw) |-> Unwrap(results[i])])}

\* The closure of the Diff step: Option<u64> to Option<FileMetaData>.
ResolveEntry(e) ==
    IF e.diff_type.tag \in {"Created", "Modified"}
    THEN [e EXCEPT !.diff_type.data =
             IF IsSome(e.diff_type.data)
             THEN Some(NoTimes(Unwrap(e.diff_type.data)))
             ELSE IF e.file_type = "RegularFile"
                  THEN Some(NoTimes(FsLen(e.path)))
                  ELSE None]
    ELSE e

\* The diff the Diff step collects from what diff_or_first returned.
ResolvedDiffs(sub) ==
    flat_map_unordered([i \in 1..Len(sub) |-> ResolveEntry(sub[i])])

\* ------------------------------------------------------------------------
\* Key material and the hot-data object (derive_key.rs, check_key.rs,
\* init_encryption_data.rs, remote_hot_data.rs).  Argon2 and AES-256-GCM
\* are symbolic: a derived key is the pair it was derived from, a
\* ciphertext opens under the key that made it and under no other.
\* ------------------------------------------------------------------------
derive_key(password, salt) == [password |-> password, salt |-> salt]

encrypt_immutable_key(password_derived_key, unencrypted_immutable_key) ==
    [sealed_under |-> password_derived_key,
     immutable_key |-> unencrypted_immutable_key]

\* Err is None.
decrypt_immutable_key(encryption_password, encryption_data) ==
    LET key == derive_key(encryption_password,
                          encryption_data.password_derived_key_salt)
    IN  IF key = encryption_data.encrypted_immutable_key.sealed_under
        THEN Some(encryption_data.encrypted_immutable_key.immutable_key)
        ELSE None

\* init_encryption_data: a fresh envelope for a password.
init_encryption_data(password) ==
    [password_derived_key_salt |-> 0,
     encrypted_immutable_key |->
         encrypt_immutable_key(derive_key(password, 0), "immutable_key"),
     aes_256_gcm_salt |-> Some("aes_256_gcm_salt"),
     blake3_salt |-> Some("blake3_salt")]

NotEncrypted(data) == [tag |-> "NotEncrypted", data |-> data]
Encrypted(encryption_data, encrypted_data) ==
    [tag |-> "Encrypted", encryption_data |-> encryption_data,
     encrypted_data |-> encrypted_data]

\* RemoteHotDataEncrypted::decrypt
RemoteHotDataEncrypted_decrypt(encrypted, encryption_password) ==
    LET immutable_key == decrypt_immutable_key(encryption_password,
                                               encrypted.encryption_data)
    IN  IF ~IsSome(immutable_key) THEN None
        ELSE IF encrypted.encrypted_data.cipher_key # Unwrap(immutable_key)
        THEN None
        ELSE Some([encryption |-> Some(encrypted.encryption_data),
                   data |-> encrypted.encrypted_data.plaintext])

\* RemoteHotData::decrypt; encryption_password is an Option.
RemoteHotData_decrypt(remote, encryption_password) ==
    IF remote.tag = "NotEncrypted"
    THEN Some([encryption |-> None, data |-> remote.data])
    ELSE IF ~IsSome(encryption_password) THEN None
         ELSE RemoteHotDataEncrypted_decrypt(remote, Unwrap(encryption_password))

\* RemoteHotDataInMemory::encrypt
RemoteHotDataInMemory_encrypt(in_memory, encryption_password) ==
    IF ~IsSome(in_memory.encryption) THEN Some(NotEncrypted(in_memory.data))
    ELSE IF ~IsSome(encryption_password) THEN None
    ELSE LET immutable_key ==
                 decrypt_immutable_key(Unwrap(encryption_password),
                                       Unwrap(in_memory.encryption))
         IN  IF ~IsSome(immutable_key) THEN None
             ELSE Some(Encrypted(Unwrap(in_memory.encryption),
                                 [cipher_key |-> Unwrap(immutable_key),
                                  plaintext |-> in_memory.data]))

\* download_hot_data with the password of the config.
download_hot_data(config_password, remote) ==
    RemoteHotData_decrypt(remote, config_password)

\* upload_hot_data: the object it puts, None when encrypt fails.
upload_hot_data(config_password, in_memory) ==
    RemoteHotDataInMemory_encrypt(in_memory, config_password)

\* check_password_command: TRUE for Ok(()).
check_password_command(config_password, remote) ==
    LET remote_hot_data == download_hot_data(config_password, remote)
    IN  IF ~IsSome(remote_hot_data) THEN FALSE
        ELSE IF IsSome(Unwrap(remote_hot_data).encryption)
             THEN IF IsSome(config_password)
                  THEN IsSome(decrypt_immutable_key(
                                  Unwrap(config_password),
                                  Unwrap(Unwrap(remote_hot_data).encryption)))
                  ELSE FALSE
             ELSE TRUE

\* change_password_command: the object it puts, None when it fails before.
\* The new envelope is built from the two fields the command names.
change_password_command(config_password, remote, new_password, new_salt) ==
    IF ~IsSome(config_password) THEN None
    ELSE LET remote_hot_data == download_hot_data(config_password, remote)
         IN  IF ~IsSome(remote_hot_data) THEN None
             ELSE IF ~IsSome(Unwrap(remote_hot_data).encryption) THEN None
             ELSE LET decrypted_immutable_key ==
                          decrypt_immutable_key(
                              Unwrap(config_password),
                              Unwrap(Unwrap(remote_hot_data).encryption))
                      new_derived_key == derive_key(new_password, new_salt)
                      encrypted_immutable_key ==
                          encrypt_immutable_key(new_derived_key,
                                                Unwrap(decrypted_immutable_key))
                  IN  IF ~IsSome(decrypted_immutable_key) THEN None
                      ELSE upload_hot_data(
                               config_password,
                               [Unwrap(remote_hot_data) EXCEPT !.encryption =
                                   Some([password_derived_key_salt |-> new_salt,
                                         encrypted_immutable_key |->
                                             encrypted_immutable_key,
                                         aes_256_gcm_salt |-> None,
                                         blake3_salt |-> None])])

\* ------------------------------------------------------------------------
\* parse_zfs_diff_output (diff_entry.rs).  A text is a sequence of
\* characters; "x" in a path stands for the text <xattrdir>.
\* ------------------------------------------------------------------------
RECURSIVE SplitAt(_, _, _)
\* str.split(sep): the pieces between the separators; cur is the piece
\* being read.  An empty text gives one empty piece.
SplitAt(text, sep, cur) ==
    IF text = <<>> THEN <<cur>>
    ELSE IF Head(text) = sep
         THEN <<cur>> \o SplitAt(Tail(text), sep, <<>>)
         ELSE SplitAt(Tail(text), sep, Append(cur, Head(text)))

\* BufRead::lines: the text between line feeds; nothing after the last one.
Lines(output) ==
    LET pieces == SplitAt(output, "\n", <<>>)
    IN  IF pieces[Len(pieces)] = <<>>
        THEN SubSeq(pieces, 1, Len(pieces) - 1)
        ELSE pieces

\* path.contains("<xattrdir>")
ContainsXattrdir(path) == \E i \in 1..Len(path) : path[i] = "x"

\* DiffEntry::from_zfs_diff_line: [err |-> TRUE], or the Option of an entry.
from_zfs_diff_line(line) ==
    LET columns == SplitAt(line, "\t", <<>>)
        Err == [err |-> TRUE, entry |-> None]
        Ok(o) == [err |-> FALSE, entry |-> o]
    IN  IF Len(columns) < 3 THEN Err
        ELSE IF ContainsXattrdir(columns[3]) THEN Ok(None)
        ELSE IF columns[1] \notin {<<"-">>, <<"+">>, <<"M">>, <<"R">>} THEN Err
        ELSE IF columns[1] = <<"R">> /\ Len(columns) < 4 THEN Err
        ELSE IF columns[2] \notin {<<"/">>, <<"F">>} THEN Err
        ELSE Ok(Some(
                 [path |-> columns[3],
                  file_type |-> IF columns[2] = <<"/">> THEN "Directory"
                                ELSE "RegularFile",
                  diff_type |->
                      CASE columns[1] = <<"-">> -> [tag |-> "Removed"]
                        [] columns[1] = <<"+">> -> [tag |-> "Created", data |-> None]
                        [] columns[1] = <<"M">> -> [tag |-> "Modified", data |-> None]
                        [] columns[1] = <<"R">> -> [tag |-> "Renamed", to |-> columns[4]]]))

\* A collect that keeps no entry.
FilterMapNothing(results) == <<>>

RECURSIVE FilterMapSome(_)
\* .filter_map(|o| o)
FilterMapSome(results) ==
    IF results = <<>> THEN <<>>
    ELSE (IF IsSome(Head(results).entry) THEN <<Unwrap(Head(results).entry)>>
          ELSE <<>>) \o FilterMapSome(Tail(results))

\* parse_zfs_diff_output: None for Err, Some(entries) for Ok.
parse_zfs_diff_output(output) ==
    LET lines == Lines(output)
        results == [i \in 1..Len(lines) |-> from_zfs_diff_line(lines[i])]
    IN  IF \E i \in 1..Len(results) : results[i].err THEN None
        ELSE Some(FilterMapSome(results))

\* ------------------------------------------------------------------------
\* The system: backup processes, each with its own data file, one bucket.
\* ------------------------------------------------------------------------
Procs == {1, 2}
Names == {"snapA", "snapB"}

DiffChoices ==
    { <<>>,
      <<RemovedEntry(97, "RegularFile"), FileEntry(98, "Created", 3)>>,
      <<CreatedDir(97), FileEntry(98, "Modified", 12), RenamedEntry(99, 100),
        TimedFileEntry(101, 9)>>,
      \* one file: a stream of MAX_OBJECT_SIZE bytes, and of one byte more
      <<FileEntry(98, "Created", MAX_OBJECT_SIZE - 10)>>,
      <<FileEntry(98, "Created", MAX_OBJECT_SIZE - 9)>> }

\* encrypt_snapshot_names is a field of the encryption config.
Configs ==
    { c \in [encryption : BOOLEAN, encrypt_snapshot_names : BOOLEAN,
             create_empty_objects : BOOLEAN] :
        c.encrypt_snapshot_names => c.encryption }

VARIABLES
    config,          \* BackupConfig of the processes
    zfsDiff,         \* snapshot name -> the resolved diff the Diff step finds
    active,          \* the processes that run commands
    objects,         \* bucket: part key -> [body, writes]
    hotSnapshots,    \* bucket: the snapshot list of the hot-data object
    pc,              \* where each process is in its command
    memory_data,     \* retry_with_steps_2: memory_data
    persistent_data, \* retry_with_steps_2: persistent_data
    new_data,        \* the persistent_data of a NotFinished being saved
    output,          \* the output of Finished
    remote_hot_data, \* BackupSteps::remote_hot_data
    taken,           \* UpdateHotData: the hot data it works on
    data,            \* BackupData in each process's data file
    outcome,         \* how each process's last command ended
    runs,            \* commands each process has run
    firstCall,       \* no do_step call of this run has returned yet
    nNotFinished,    \* NotFinished results of this run
    nSaves,          \* save_state calls of this run
    lastPut,         \* the last part PUT of this run that was answered
    clean,           \* the stream in memory was built at part 0 by this run
                     \* and every PUT since created its object
    sDiff,      \* SpecStream: the diff list given to snapshot_upload_stream
    sSkip,      \* SpecStream: its start_index
    sOut,       \* SpecStream: None, or Some(the bytes the stream yielded)
    nCount,     \* SpecNonce: a snapshot count as u64
    nOut,       \* SpecNonce: whether the nonce was computed, and the result
    tInner,     \* SpecTake: the ChunksStreamOfStreams (upstream left, buffer)
    tLast,      \* SpecTake: None, or Some(the last take and what it yielded)
    dPrev,      \* SpecDiff: last_saved_snapshot_name is Some
    dRaw,       \* SpecDiff: the entries zfs diff prints, or the directory walk
    dSub,       \* SpecDiff: None, or Some(what diff_or_first returned)
    dStored,    \* SpecDiff: whether the step returned, and the diff of
                \* the Upload checkpoint if it made one
    oIn,        \* SpecOptimize: the list given to optimize_diff_entries
    oOut,       \* SpecOptimize: None, or Some(the list it left)
    oAgain,     \* SpecOptimize: None, or Some(the list a second call left)
    hHot,       \* SpecPassword: the hot-data object (a RemoteHotData)
    hConfig,    \* SpecPassword: config.encryption's password, if any
    hSalts,     \* SpecPassword: random salts drawn so far
    hLast,      \* SpecPassword: None, or Some(the last command and its end)
    zCols,      \* SpecParse: the lines zfs diff printed, each as its columns
    zOut,       \* SpecParse: None, or Some(what parse_zfs_diff_output returned)
    mPrev,      \* SpecMount: previous_snapshot is Some
    mRaw,       \* SpecMount: what zfs diff printed, or what the directory walk found
    mOut,       \* SpecMount: None, or Some(what diff_or_first returned)
    aDisk,      \* SpecAuto: the AutoBackupState in the save data file
    aSnaps,     \* SpecAuto: the names of the snapshots of the dataset
    aFiles,     \* SpecAuto: the files of temp_dir: [path, snapshot, from, whole]
    aPc,        \* SpecAuto: where the invocation of run is
    aMem,       \* SpecAuto: None, or Some(the locals of auto_back and backup)
    aLog,       \* SpecAuto: what the last invocation started from and did
    aRes,       \* SpecAuto: how the last invocation ended
    aDone,      \* SpecAuto: the backups completed: snapshot sent and from what
    aRuns       \* SpecAuto: invocations so far

vars == <<config, zfsDiff, active, objects, hotSnapshots, pc, memory_data,
          persistent_data, new_data, output, remote_hot_data, taken, data,
          outcome, runs, firstCall, nNotFinished, nSaves, lastPut, clean,
          sDiff, sSkip, sOut, nCount, nOut, tInner, tLast,
          dPrev, dRaw, dSub, dStored, oIn, oOut, oAgain,
          hHot, hConfig, hSalts, hLast,
          zCols, zOut, mPrev, mRaw, mOut, aDisk, aSnaps, aFiles, aPc, aMem,
          aLog, aRes, aDone, aRuns>>

envVars == <<config, zfsDiff, active>>
takeVars == <<tInner, tLast>>
diffVars == <<dPrev, dRaw, dSub, dStored>>
optimizeVars == <<oIn, oOut, oAgain>>
passwordVars == <<hHot, hConfig, hSalts, hLast>>
parseVars == <<zCols, zOut>>
mountVars == <<mPrev, mRaw, mOut>>
autoVars == <<aDisk, aSnaps, aFiles, aPc, aMem, aLog, aRes, aDone, aRuns>>
lateVars == <<parseVars, mountVars, autoVars>>
notLateVars ==
    <<envVars, objects, hotSnapshots, pc, memory_data, persistent_data,
      new_data, output, remote_hot_data, taken, data, outcome, runs,
      firstCall, nNotFinished, nSaves, lastPut, clean, sDiff, sSkip, sOut,
      nCount, nOut, takeVars, diffVars, optimizeVars, passwordVars>>
streamVars == <<sDiff, sSkip, sOut, nCount, nOut, takeVars, diffVars,
                optimizeVars, passwordVars, lateVars>>

\* ------------------------------------------------------------------------
\* BackupStep (backup_data.rs).
\* ------------------------------------------------------------------------
NoStep == [step |-> "None"]
StepDiff(name, allow_empty) ==
    [step |-> "Diff", snapshot_name |-> name, allow_empty |-> allow_empty]
StepUpload(name, diff, uploaded_objects) ==
    [step |-> "Upload", snapshot_name |-> name, diff |-> diff,
     uploaded_objects |-> uploaded_objects]
StepUpdateHotData(name) == [step |-> "UpdateHotData", snapshot_name |-> name]

\* An Upload step that hands back a Diff step.
BackupStepUploadBackToDiff(s) == StepDiff(s.snapshot_name, TRUE)

\* A Diff step that hands on an Upload step with a part counted already.
BackupStepDiffCountsPart(s, diff) == StepUpload(s.snapshot_name, diff, 1)

BackupStepDiff_next(s, diff) == StepUpload(s.snapshot_name, diff, 0)
BackupStepUpload_next(s) == StepUpdateHotData(s.snapshot_name)

\* Position of a step in Diff -> Upload -> UpdateHotData.
StepRank(s) ==
    CASE s.step = "Diff" -> 1
      [] s.step = "Upload" -> 2
      [] s.step = "UpdateHotData" -> 3
      [] OTHER -> 0

EmptyData == [last_saved_snapshot_name |-> None, backup_step |-> None]

\* ------------------------------------------------------------------------
\* retry_with_steps_2 (retry_steps_2.rs): what the loop does with the result
\* of do_step.  The process exits when the driver returns an error.
\* ------------------------------------------------------------------------
\* A driver that drops the checkpoint when a step fails.
RetryStepErrorDropsCheckpoint(p) ==
    /\ pc' = [pc EXCEPT ![p] = "idle"]
    /\ outcome' = [outcome EXCEPT ![p] = "step_err"]
    /\ memory_data' = [memory_data EXCEPT ![p] = None]
    /\ firstCall' = [firstCall EXCEPT ![p] = FALSE]
    /\ data' = [data EXCEPT ![p].backup_step = None]
    /\ UNCHANGED <<persistent_data, new_data, output, nNotFinished, nSaves>>

\* do_step(..).await? with an Err: the error is returned; nothing is saved.
RetryStepError(p) ==
    /\ pc' = [pc EXCEPT ![p] = "idle"]
    /\ outcome' = [outcome EXCEPT ![p] = "step_err"]
    /\ memory_data' = [memory_data EXCEPT ![p] = None]
    /\ firstCall' = [firstCall EXCEPT ![p] = FALSE]
    /\ UNCHANGED <<persistent_data, new_data, output, data, nNotFinished, nSaves>>

\* A driver that goes on to the next do_step without calling save_state.
RetryNotFinishedUnsaved(p, mem, pers) ==
    /\ pc' = [pc EXCEPT ![p] = "do_step"]
    /\ memory_data' = [memory_data EXCEPT ![p] = mem]
    /\ persistent_data' = [persistent_data EXCEPT ![p] = pers]
    /\ nNotFinished' = [nNotFinished EXCEPT ![p] = @ + 1]
    /\ firstCall' = [firstCall EXCEPT ![p] = FALSE]
    /\ UNCHANGED <<new_data, output, outcome, data, nSaves>>

\* NotFinished(new_data): memory_data = new_data.memory_data, then save_state.
RetryNotFinished(p, mem, pers) ==
    /\ pc' = [pc EXCEPT ![p] = "save"]
    /\ memory_data' = [memory_data EXCEPT ![p] = mem]
    /\ new_data' = [new_data EXCEPT ![p] = pers]
    /\ nNotFinished' = [nNotFinished EXCEPT ![p] = @ + 1]
    /\ firstCall' = [firstCall EXCEPT ![p] = FALSE]
    /\ UNCHANGED <<persistent_data, output, outcome, data, nSaves>>

\* Finished(output) => break output.
RetryFinished(p, out) ==
    /\ pc' = [pc EXCEPT ![p] = "finished"]
    /\ output' = [output EXCEPT ![p] = out]
    /\ memory_data' = [memory_data EXCEPT ![p] = None]
    /\ firstCall' = [firstCall EXCEPT ![p] = FALSE]
    /\ UNCHANGED <<persistent_data, new_data, outcome, data, nNotFinished, nSaves>>

\* A saver that reports success without writing the data file.
SaveStateWritesNothing(p) ==
    /\ pc[p] = "save"
    /\ nSaves' = [nSaves EXCEPT ![p] = @ + 1]
    /\ persistent_data' = [persistent_data EXCEPT ![p] = new_data[p]]
    /\ pc' = [pc EXCEPT ![p] = "do_step"]
    /\ new_data' = [new_data EXCEPT ![p] = NoStep]
    /\ UNCHANGED <<envVars, streamVars, objects, hotSnapshots, output, taken,
                   runs, firstCall, nNotFinished, lastPut, clean, data,
                   memory_data, outcome, remote_hot_data>>

\* state_saver.save_state(&new_data.persistent_data).await.unwrap();
\* persistent_data = new_data.persistent_data.  The saver writes the step
\* into the data file; when it fails, unwrap panics.
SaveState(p) ==
    /\ pc[p] = "save"
    /\ nSaves' = [nSaves EXCEPT ![p] = @ + 1]
    /\ \/ /\ data' = [data EXCEPT ![p].backup_step = Some(new_data[p])]
          /\ persistent_data' = [persistent_data EXCEPT ![p] = new_data[p]]
          /\ pc' = [pc EXCEPT ![p] = "do_step"]
          /\ UNCHANGED <<memory_data, outcome, remote_hot_data>>
       \/ /\ pc' = [pc EXCEPT ![p] = "idle"]
          /\ outcome' = [outcome EXCEPT ![p] = "save_panic"]
          /\ memory_data' = [memory_data EXCEPT ![p] = None]
          /\ persistent_data' = [persistent_data EXCEPT ![p] = NoStep]
          /\ remote_hot_data' = [remote_hot_data EXCEPT ![p] = None]
          /\ UNCHANGED data
    /\ new_data' = [new_data EXCEPT ![p] = NoStep]
    /\ UNCHANGED <<envVars, streamVars, objects, hotSnapshots, output, taken,
                   runs, firstCall, nNotFinished, lastPut, clean>>

\* ------------------------------------------------------------------------
\* BackupSteps::start (backup_steps.rs 38-80) under `backup start`.
\* ------------------------------------------------------------------------
\* The hot data take_remote_hot_data returns: the cached one, else a download.
HotDataFor(p) ==
    IF IsSome(remote_hot_data[p]) THEN Unwrap(remote_hot_data[p])
    ELSE [snapshots |-> hotSnapshots]

\* A search that finds no saved name.
ContainsNothing(seq, x) == FALSE

Contains(seq, x) == \E i \in 1..Len(seq) : seq[i] = x

StartFails(p) ==
    /\ pc' = [pc EXCEPT ![p] = "idle"]
    /\ outcome' = [outcome EXCEPT ![p] = "start_err"]
    /\ remote_hot_data' = [remote_hot_data EXCEPT ![p] = None]
    /\ UNCHANGED <<memory_data, persistent_data, firstCall, nNotFinished, nSaves>>

\* A new run of the driver from initial_state.
DriverBegin(p, initial_persistent) ==
    /\ pc' = [pc EXCEPT ![p] = "do_step"]
    /\ memory_data' = [memory_data EXCEPT ![p] = None]
    /\ persistent_data' = [persistent_data EXCEPT ![p] = initial_persistent]
    /\ firstCall' = [firstCall EXCEPT ![p] = TRUE]
    /\ nNotFinished' = [nNotFinished EXCEPT ![p] = 0]
    /\ nSaves' = [nSaves EXCEPT ![p] = 0]
    /\ outcome' = [outcome EXCEPT ![p] = "running"]

start(p, snapshot_name, allow_empty) ==
    \* zfs_take_snapshot, a missing name or the hot-data download fails
    \/ StartFails(p)
    \* the name is already saved
    \/ /\ Contains(HotDataFor(p).snapshots, snapshot_name)
       /\ StartFails(p)
    \/ /\ ~Contains(HotDataFor(p).snapshots, snapshot_name)
       /\ remote_hot_data' = [remote_hot_data EXCEPT ![p] = Some(HotDataFor(p))]
       /\ DriverBegin(p, StepDiff(snapshot_name, allow_empty))

\* `backup start`: refused while a step is in progress in the data file.
BackupStart(p) ==
    /\ p \in active
    /\ pc[p] = "idle"
    /\ runs[p] < MaxRuns
    /\ data[p].backup_step = None
    /\ runs' = [runs EXCEPT ![p] = @ + 1]
    /\ \E snapshot_name \in Names, allow_empty \in BOOLEAN :
          start(p, snapshot_name, allow_empty)
    /\ lastPut' = [lastPut EXCEPT ![p] = None]
    /\ clean' = [clean EXCEPT ![p] = FALSE]
    /\ UNCHANGED <<envVars, streamVars, objects, hotSnapshots, new_data, output,
                   taken, data>>

\* `backup continue`: the driver resumes from the step in the data file.
BackupContinue(p) ==
    /\ p \in active
    /\ pc[p] = "idle"
    /\ runs[p] < MaxRuns
    /\ IsSome(data[p].backup_step)
    /\ runs' = [runs EXCEPT ![p] = @ + 1]
    /\ DriverBegin(p, Unwrap(data[p].backup_step))
    /\ lastPut' = [lastPut EXCEPT ![p] = None]
    /\ clean' = [clean EXCEPT ![p] = FALSE]
    /\ UNCHANGED <<envVars, streamVars, objects, hotSnapshots, new_data, output,
                   remote_hot_data, taken, data>>


\* ------------------------------------------------------------------------
\* BackupSteps::do_step (backup_steps.rs 114-428).
\* ------------------------------------------------------------------------
\* Diff: the mount point, the diff and the metadata of its files; any of
\* them may fail.
DiffStep(p) ==
    /\ pc[p] = "do_step"
    /\ persistent_data[p].step = "Diff"
    /\ LET backup_step_diff == persistent_data[p]
           diff == zfsDiff[backup_step_diff.snapshot_name]
       IN  \/ /\ RetryStepError(p)
              /\ remote_hot_data' = [remote_hot_data EXCEPT ![p] = None]
           \/ /\ IF backup_step_diff.allow_empty \/ diff # <<>>
                 THEN RetryNotFinished(p, None,
                                       BackupStepDiff_next(backup_step_diff, diff))
                 ELSE RetryFinished(p, None)
              /\ UNCHANGED remote_hot_data
    /\ UNCHANGED <<envVars, streamVars, objects, hotSnapshots, taken, runs,
                   lastPut, clean>>

\* The name under SNAPSHOTS_PREFIX: the keyed hash of the snapshot name when
\* snapshot names are encrypted.
HashName(name) == IF name = "snapA" THEN "blake3(snapA)" ELSE "blake3(snapB)"

KeySnapshotName(cfg, name) ==
    IF cfg.encryption /\ cfg.encrypt_snapshot_names THEN HashName(name) ELSE name

\* A PUT without if_none_match: never answered 412.
PreconditionNever(key) == FALSE

\* .if_none_match("*"): the PUT is answered 412 when the key exists.
PreconditionFailed(key) == key \in DOMAIN objects

\* A step that hands the part back without counting it.
UploadResultUncounted(p, backup_step_upload, total_objects_count, stream) ==
    RetryNotFinished(p, Some(stream), backup_step_upload)

\* self.remote_hot_data once the stream is there: building an encrypted
\* stream takes the hot data out of self (take_remote_hot_data).
HotDataAfterBuild(p) ==
    IF ~IsSome(memory_data[p]) /\ config.encryption THEN None
    ELSE remote_hot_data[p]

\* The hashed key needs self.remote_hot_data: "No remote hot data".
NoRemoteHotData(p) ==
    /\ config.encryption
    /\ config.encrypt_snapshot_names
    /\ ~IsSome(HotDataAfterBuild(p))

\* What the step returns once the part is counted as uploaded.
UploadResult(p, backup_step_upload, total_objects_count, stream) ==
    LET counted == [backup_step_upload EXCEPT !.uploaded_objects = @ + 1]
    IN  IF counted.uploaded_objects = total_objects_count
        THEN RetryNotFinished(p, None, BackupStepUpload_next(counted))
        ELSE RetryNotFinished(p, Some(stream), counted)

\* Upload with uploaded_objects < total_objects_count: one part is PUT.
UploadPart(p, backup_step_upload, total_objects_count) ==
    LET uploaded == backup_step_upload.uploaded_objects
        diff == backup_step_upload.diff
        build == ~IsSome(memory_data[p])
        nonce_result == StreamNonce(SnapshotsLen(HotDataFor(p).snapshots))
        ran_out_of_nonces == build /\ config.encryption /\ ~IsSome(nonce_result)
        nonce == Unwrap(nonce_result)
        \* the nonce the stream in memory was built with
        stream_nonce == IF build \/ ~IsSome(lastPut[p]) THEN nonce
                        ELSE Unwrap(lastPut[p]).nonce
        stream == IF build
                  THEN try_chunks_streams(BuildStream(config, diff, uploaded, nonce))
                  ELSE Unwrap(memory_data[p])
        hot_after == HotDataAfterBuild(p)
        no_remote_hot_data == NoRemoteHotData(p)
        key == <<KeySnapshotName(config, backup_step_upload.snapshot_name), uploaded>>
        object_len == ObjectLen(config, diff, uploaded)
        body == take_bytes_stream(stream, MAX_OBJECT_SIZE)
    IN  \* the mount point, the password, the hot data, the key or the PUT
        \* fails (a body shorter than content_length fails the PUT)
        \/ /\ RetryStepError(p)
           /\ remote_hot_data' = [remote_hot_data EXCEPT ![p] = None]
           /\ UNCHANGED <<objects, lastPut, clean>>
        \* the PUT succeeds; the client sends content_length bytes
        \/ /\ ~ran_out_of_nonces
           /\ ~no_remote_hot_data
           /\ ~PreconditionFailed(key)
           /\ ~body.panic
           /\ Len(body.out) >= object_len
           /\ objects' = (key :> [body |-> SubSeq(body.out, 1, object_len),
                                  writes |-> IF key \in DOMAIN objects
                                             THEN objects[key].writes + 1
                                             ELSE 1]) @@ objects
           /\ UploadResult(p, backup_step_upload, total_objects_count, body.inner)
           /\ remote_hot_data' = [remote_hot_data EXCEPT ![p] = hot_after]
           /\ lastPut' = [lastPut EXCEPT ![p] =
                            Some([answer |-> "created", key |-> key, diff |-> diff,
                                  nonce |-> stream_nonce,
                                  content_length |-> object_len,
                                  clean |-> IF build THEN uploaded = 0
                                            ELSE clean[p]])]
           /\ clean' = [clean EXCEPT ![p] = IF build THEN uploaded = 0 ELSE @]
        \* 412: the part counts as uploaded, however much of the body the
        \* client had pulled from the stream
        \/ /\ ~ran_out_of_nonces
           /\ ~no_remote_hot_data
           /\ PreconditionFailed(key)
           /\ \E polls \in 0..body.yields :
                 UploadResult(p, backup_step_upload, total_objects_count,
                              take_bytes_partial(stream, MAX_OBJECT_SIZE, polls).inner)
           /\ remote_hot_data' = [remote_hot_data EXCEPT ![p] = hot_after]
           /\ clean' = [clean EXCEPT ![p] = FALSE]
           /\ lastPut' = [lastPut EXCEPT ![p] =
                            Some([answer |-> "412", key |-> key, diff |-> diff,
                                  nonce |-> stream_nonce,
                                  content_length |-> object_len,
                                  clean |-> FALSE])]
           /\ UNCHANGED objects

\* Upload with uploaded_objects >= total_objects_count: nothing is PUT.
UploadNothing(p, backup_step_upload, total_objects_count) ==
    /\ IF backup_step_upload.uploaded_objects = total_objects_count
       THEN RetryNotFinished(p, None, BackupStepUpload_next(backup_step_upload))
       \* more parts counted than there are: the same step is handed back
       ELSE /\ nNotFinished[p] < MaxSpins
            /\ RetryNotFinished(p, None, backup_step_upload)
    /\ UNCHANGED <<objects, remote_hot_data, lastPut, clean>>

UploadStep(p) ==
    /\ pc[p] = "do_step"
    /\ persistent_data[p].step = "Upload"
    /\ LET backup_step_upload == persistent_data[p]
           total_objects_count == TotalObjectsCount(config, backup_step_upload.diff)
       IN  IF backup_step_upload.uploaded_objects < total_objects_count
           THEN UploadPart(p, backup_step_upload, total_objects_count)
           ELSE UploadNothing(p, backup_step_upload, total_objects_count)
    /\ UNCHANGED <<envVars, streamVars, hotSnapshots, taken, runs>>

\* UpdateHotData, up to take_remote_hot_data: the cached hot data if there
\* is one, else a download (which may fail).
UpdateHotDataTake(p) ==
    /\ pc[p] = "do_step"
    /\ persistent_data[p].step = "UpdateHotData"
    /\ remote_hot_data' = [remote_hot_data EXCEPT ![p] = None]
    /\ \/ /\ RetryStepError(p)
          /\ UNCHANGED taken
       \/ /\ taken' = [taken EXCEPT ![p] = Some(HotDataFor(p))]
          /\ pc' = [pc EXCEPT ![p] = "update_hot_data"]
          /\ UNCHANGED <<memory_data, persistent_data, new_data, output, outcome,
                         data, firstCall, nNotFinished, nSaves>>
    /\ UNCHANGED <<envVars, streamVars, objects, hotSnapshots, runs, lastPut, clean>>

\* A comparison that never finds the name as the last one.
LastIsNeverKnown(seq) == None

Last(seq) == IF seq = <<>> THEN None ELSE Some(seq[Len(seq)])

\* UpdateHotData, the rest: append the name unless it is the last one, and
\* upload (which may fail).
UpdateHotDataWrite(p) ==
    /\ pc[p] = "update_hot_data"
    /\ LET snapshot_name == persistent_data[p].snapshot_name
           snapshots == Unwrap(taken[p]).snapshots
       IN  IF Last(snapshots) # Some(snapshot_name)
           THEN \/ /\ hotSnapshots' = Append(snapshots, snapshot_name)
                   /\ RetryFinished(p, Some(snapshot_name))
                \/ /\ RetryStepError(p)
                   /\ UNCHANGED hotSnapshots
           ELSE /\ RetryFinished(p, Some(snapshot_name))
                /\ UNCHANGED hotSnapshots
    /\ taken' = [taken EXCEPT ![p] = None]
    /\ UNCHANGED <<envVars, streamVars, objects, remote_hot_data, runs, lastPut,
                   clean>>

\* ------------------------------------------------------------------------
\* Around the driver.
\* ------------------------------------------------------------------------
\* The command after the driver returned Ok(output): the data file is
\* rewritten without a step in progress, the committed name recorded.
CommandFinish(p) ==
    /\ pc[p] = "finished"
    /\ data' = [data EXCEPT ![p] =
                  [last_saved_snapshot_name |->
                       IF IsSome(output[p]) THEN output[p]
                       ELSE data[p].last_saved_snapshot_name,
                   backup_step |-> None]]
    /\ pc' = [pc EXCEPT ![p] = "idle"]
    /\ outcome' = [outcome EXCEPT ![p] = "ok"]
    /\ output' = [output EXCEPT ![p] = None]
    /\ persistent_data' = [persistent_data EXCEPT ![p] = NoStep]
    /\ remote_hot_data' = [remote_hot_data EXCEPT ![p] = None]
    /\ UNCHANGED <<envVars, streamVars, objects, hotSnapshots, memory_data,
                   new_data, taken, runs, firstCall, nNotFinished, nSaves,
                   lastPut, clean>>

\* The process is killed: everything in memory is lost.
Crash(p) ==
    /\ pc[p] # "idle"
    /\ pc' = [pc EXCEPT ![p] = "idle"]
    /\ outcome' = [outcome EXCEPT ![p] = "crashed"]
    /\ memory_data' = [memory_data EXCEPT ![p] = None]
    /\ persistent_data' = [persistent_data EXCEPT ![p] = NoStep]
    /\ new_data' = [new_data EXCEPT ![p] = NoStep]
    /\ output' = [output EXCEPT ![p] = None]
    /\ remote_hot_data' = [remote_hot_data EXCEPT ![p] = None]
    /\ taken' = [taken EXCEPT ![p] = None]
    /\ UNCHANGED <<envVars, streamVars, objects, hotSnapshots, data, runs,
                   firstCall, nNotFinished, nSaves, lastPut, clean>>

\* ------------------------------------------------------------------------
\* Specifications.
\* ------------------------------------------------------------------------
InitProcs ==
    /\ objects = <<>>
    /\ hotSnapshots = <<>>
    /\ pc = [p \in Procs |-> "idle"]
    /\ memory_data = [p \in Procs |-> None]
    /\ persistent_data = [p \in Procs |-> NoStep]
    /\ new_data = [p \in Procs |-> NoStep]
    /\ output = [p \in Procs |-> None]
    /\ remote_hot_data = [p \in Procs |-> None]
    /\ taken = [p \in Procs |-> None]
    /\ data = [p \in Procs |-> EmptyData]
    /\ outcome = [p \in Procs |-> "none"]
    /\ runs = [p \in Procs |-> 0]
    /\ firstCall = [p \in Procs |-> TRUE]
    /\ nNotFinished = [p \in Procs |-> 0]
    /\ nSaves = [p \in Procs |-> 0]
    /\ lastPut = [p \in Procs |-> None]
    /\ clean = [p \in Procs |-> FALSE]

\* No invocation of run has started; nothing was logged.
NoLog == [start |-> "none", after_crash |-> FALSE, failed |-> FALSE,
          start_count |-> 0, events |-> <<>>]

InitNoParse ==
    /\ zCols = <<>>
    /\ zOut = None

InitNoMount ==
    /\ mPrev = FALSE
    /\ mRaw = <<>>
    /\ mOut = None

InitNoAuto ==
    /\ aDisk = [snapshots_backed_up |-> 0, backing_up_progress |-> None]
    /\ aSnaps = {}
    /\ aFiles = {}
    /\ aPc = "idle"
    /\ aMem = None
    /\ aLog = NoLog
    /\ aRes = "none"
    /\ aDone = <<>>
    /\ aRuns = 0

InitNoLate ==
    /\ InitNoParse
    /\ InitNoMount
    /\ InitNoAuto

InitNoPassword ==
    /\ InitNoLate
    /\ hHot = NotEncrypted([snapshots |-> <<>>])
    /\ hConfig = None
    /\ hSalts = 0
    /\ hLast = None

InitNoOptimize ==
    /\ InitNoPassword
    /\ oIn = <<>>
    /\ oOut = None
    /\ oAgain = None

InitNoDiff ==
    /\ InitNoOptimize
    /\ dPrev = FALSE
    /\ dRaw = <<>>
    /\ dSub = None
    /\ dStored = [done |-> FALSE, diff |-> None]

InitNoTake ==
    /\ tInner = try_chunks_streams(<<>>)
    /\ tLast = None
    /\ InitNoDiff

InitNoNonce ==
    /\ nCount = U64(0, 0, 0)
    /\ nOut = [done |-> FALSE, result |-> None]
    /\ InitNoTake

InitNoStream ==
    /\ sDiff = <<>>
    /\ sSkip = 0
    /\ sOut = None
    /\ InitNoNonce

\* One backup process, any config, every snapshot with the same diff.
Init ==
    /\ config \in Configs
    /\ \E d \in DiffChoices : zfsDiff = [n \in Names |-> d]
    /\ active = {1}
    /\ InitProcs
    /\ InitNoStream

Next ==
    \E p \in Procs :
        \/ BackupStart(p)
        \/ BackupContinue(p)
        \/ DiffStep(p)
        \/ UploadStep(p)
        \/ UpdateHotDataTake(p)
        \/ UpdateHotDataWrite(p)
        \/ SaveState(p)
        \/ CommandFinish(p)
        \/ Crash(p)

Spec == Init /\ [][Next]_vars

\* Two backup processes on the same bucket, each with its own data file.
InitConc ==
    /\ config = [encryption |-> FALSE, encrypt_snapshot_names |-> FALSE,
                 create_empty_objects |-> FALSE]
    /\ zfsDiff = [n \in Names |->
                    <<RemovedEntry(97, "RegularFile"), FileEntry(98, "Created", 3)>>]
    /\ active = {1, 2}
    /\ InitProcs
    /\ InitNoStream

SpecConc == InitConc /\ [][Next]_vars

\* snapshot_upload_stream alone: a diff list and a start_index, then the
\* bytes the stream yields.
InitStream ==
    /\ config = [encryption |-> FALSE, encrypt_snapshot_names |-> FALSE,
                 create_empty_objects |-> FALSE]
    /\ zfsDiff = [n \in Names |-> <<>>]
    /\ active = {}
    /\ InitProcs
    /\ sDiff \in DiffChoices
    /\ sSkip \in 0..UnencryptedSize(sDiff)
    /\ sOut = None
    /\ InitNoNonce

StreamRun ==
    /\ sOut = None
    /\ sOut' = Some(Flatten(snapshot_upload_stream(sDiff, sSkip)))
    /\ UNCHANGED <<envVars, objects, hotSnapshots, pc, memory_data,
                   persistent_data, new_data, output, remote_hot_data, taken,
                   data, outcome, runs, firstCall, nNotFinished, nSaves,
                   lastPut, clean, sDiff, sSkip, nCount, nOut, takeVars, diffVars,
                   optimizeVars, passwordVars, lateVars>>

NextStream == StreamRun

SpecStream == InitStream /\ [][NextStream]_vars

\* ------------------------------------------------------------------------
\* Properties.
\* ------------------------------------------------------------------------
\* The stream of an uninterrupted upload, and its part i.
FullStream(cfg, diff, nonce) == Flatten(BuildStream(cfg, diff, 0, nonce))

Part(full, i) ==
    SubSeq(full, i * MAX_OBJECT_SIZE + 1, Min((i + 1) * MAX_OBJECT_SIZE, Len(full)))

RECURSIVE ConcatParts(_, _)
\* The bodies of parts 0..n-1 under a snapshot key, in index order.
ConcatParts(key_name, n) ==
    IF n = 0 THEN <<>>
    ELSE ConcatParts(key_name, n - 1) \o objects[<<key_name, n - 1>>].body

\* With one process: the nonce a snapshot's stream is encrypted with is the
\* length of the hot-data list before the snapshot is committed.
NonceOf(name) ==
    LET count == IF Contains(hotSnapshots, name)
                 THEN (CHOOSE i \in 1..Len(hotSnapshots) : hotSnapshots[i] = name) - 1
                 ELSE Len(hotSnapshots)
    IN  Unwrap(StreamNonce(U64(0, 0, count)))

\* C1: in a run of retry_with_steps_2, every NotFinished(next) is followed by
\* exactly one save_state(next.persistent_data) before the next do_step
\* begins, and every do_step after the first of a run is given the
\* persistent state of the last saved checkpoint.
C1_SavedBeforeNextStep ==
    \A p \in Procs :
        /\ pc[p] = "save" => nNotFinished[p] = nSaves[p] + 1
        /\ pc[p] \in {"do_step", "update_hot_data"} =>
              /\ nSaves[p] = nNotFinished[p]
              /\ ~firstCall[p] => data[p].backup_step = Some(persistent_data[p])

C1_Witness ==
    \E p \in Procs :
        /\ pc[p] = "do_step"
        /\ nSaves[p] >= 2
        /\ persistent_data[p].step = "Upload"
        /\ persistent_data[p].uploaded_objects >= 1

\* C2: whatever the diff and the config, and wherever an upload was
\* interrupted and resumed from its checkpoint, every part in the bucket has
\* the body the uninterrupted upload gives that part.
C2_ResumedBodiesEqualUninterrupted ==
    \A name \in Names :
        \A i \in 0..(TotalObjectsCount(config, zfsDiff[name]) - 1) :
            LET key == <<KeySnapshotName(config, name), i>>
            IN  key \in DOMAIN objects =>
                   objects[key].body
                     = Part(FullStream(config, zfsDiff[name], NonceOf(name)), i)

\* C3: a part PUT never replaces an object: once a key exists its object
\* stays as it is, and every object was written once.
C3_PartsCreatedOnce ==
    [][\A key \in DOMAIN objects :
          /\ key \in DOMAIN objects'
          /\ objects'[key] = objects[key]
          /\ objects[key].writes = 1]_vars

C3_Witness ==
    \E p \in Procs :
        /\ IsSome(lastPut[p])
        /\ Unwrap(lastPut[p]).answer = "412"
        /\ Unwrap(lastPut[p]).key \in DOMAIN objects
        /\ objects[Unwrap(lastPut[p]).key].writes = 1

\* C4: with two backup processes on the bucket and any interleaving of
\* their retried runs, the hot-data snapshot list holds no name twice.
C4_NoNameTwice ==
    \A i, j \in 1..Len(hotSnapshots) :
        i # j => hotSnapshots[i] # hotSnapshots[j]

\* C5: do_step never returns a NotFinished whose step is earlier in
\* Diff -> Upload -> UpdateHotData than the step it was given, and the run
\* finishes only with None from Diff or with Some(snapshot_name) from
\* UpdateHotData.
C5_StepsOnlyForward ==
    \A p \in Procs :
        /\ pc[p] = "save" =>
              /\ StepRank(new_data[p]) >= StepRank(persistent_data[p])
              /\ StepRank(persistent_data[p]) >= 1
        /\ pc[p] = "finished" =>
              IF IsSome(output[p])
              THEN /\ persistent_data[p].step = "UpdateHotData"
                   /\ output[p] = Some(persistent_data[p].snapshot_name)
              ELSE persistent_data[p].step = "Diff"

C5_Witness ==
    \E p \in Procs :
        /\ pc[p] = "save"
        /\ persistent_data[p].step = "Upload"
        /\ persistent_data[p].uploaded_objects >= 1
        /\ new_data[p].step = "UpdateHotData"

\* C6: a failed save_state ends the run of retry_with_steps_2 with a
\* returned error: no run ends with a panic of the driver.
C6_SaveErrorIsReturned ==
    \A p \in Procs : outcome[p] # "save_panic"

\* C7: when do_step returns an error the run ends without a save_state
\* call: the data file is left as it was, holding the checkpoint saved
\* before the failing step.
C7_StepErrorSavesNothing ==
    [][\A p \in Procs :
          (outcome[p] = "running" /\ outcome'[p] = "step_err") =>
              /\ data'[p] = data[p]
              /\ nSaves'[p] = nSaves[p]
              /\ nSaves[p] > 0 => data'[p].backup_step = Some(persistent_data[p])]_vars

C7_Witness ==
    \E p \in Procs :
        /\ outcome[p] = "step_err"
        /\ nSaves[p] >= 2
        /\ IsSome(data[p].backup_step)
        /\ Unwrap(data[p].backup_step).step = "Upload"
        /\ Unwrap(data[p].backup_step).uploaded_objects >= 1

\* C8 as stated: after any step error a step in progress is in the data
\* file, the first Diff step after `backup start` included.
C8_StepAlwaysOnDisk ==
    \A p \in Procs : outcome[p] = "step_err" => IsSome(data[p].backup_step)

\* C8: after a step error the data file holds the failing step as the step
\* in progress, unless the failing step is the Diff step `backup start`
\* begins with: nothing has been saved then, and no step is in the file.
C8_StepOnDiskOnceCheckpointed ==
    \A p \in Procs :
        outcome[p] = "step_err" =>
            IF persistent_data[p].step = "Diff"
            THEN data[p].backup_step = None
            ELSE data[p].backup_step = Some(persistent_data[p])

C8_Witness ==
    \E p \in Procs :
        /\ outcome[p] = "step_err"
        /\ persistent_data[p].step = "UpdateHotData"
        /\ hotSnapshots # <<>>

\* C9: the bytes of snapshot_upload_stream(diff, k) are the bytes of
\* snapshot_upload_stream(diff, 0) without the first k, wherever k falls.
C9_SkipYieldsSuffix ==
    IsSome(sOut) =>
        Unwrap(sOut) = Drop(Flatten(snapshot_upload_stream(sDiff, 0)), sSkip)

\* C10: in an Upload that runs from part 0 without interruption, the parts
\* are created in index order, part i is bytes [i*MAX_OBJECT_SIZE,
\* (i+1)*MAX_OBJECT_SIZE) of the full stream, its length is the declared
\* content length min(MAX_OBJECT_SIZE, size - i*MAX_OBJECT_SIZE), and the
\* parts together are the full stream.
C10_PartsAreSlices ==
    \A p \in Procs :
        (/\ IsSome(lastPut[p])
         /\ Unwrap(lastPut[p]).answer = "created"
         /\ Unwrap(lastPut[p]).clean) =>
            LET put == Unwrap(lastPut[p])
                i == put.key[2]
                full == FullStream(config, put.diff, put.nonce)
                size == SnapshotUploadSize(config, put.diff)
            IN  /\ \A j \in 0..i : <<put.key[1], j>> \in DOMAIN objects
                /\ objects[put.key].body = Part(full, i)
                /\ Len(objects[put.key].body) = put.content_length
                /\ put.content_length = Min(MAX_OBJECT_SIZE, size - i * MAX_OBJECT_SIZE)
                /\ i + 1 = TotalObjectsCount(config, put.diff) =>
                      ConcatParts(put.key[1], i + 1) = full

C10_Witness ==
    \E p \in Procs :
        /\ IsSome(lastPut[p])
        /\ Unwrap(lastPut[p]).answer = "created"
        /\ Unwrap(lastPut[p]).clean
        /\ Unwrap(lastPut[p]).key[2] = 2
        /\ Unwrap(lastPut[p]).content_length < MAX_OBJECT_SIZE
        /\ Unwrap(lastPut[p]).content_length > 0

\* How often a name is in a snapshot list.
Occurrences(seq, x) == Cardinality({i \in 1..Len(seq) : seq[i] = x})

\* C11: with no other writer, an UpdateHotData step that finishes writes
\* nothing when the last name of the hot-data list is snapshot_name and else
\* writes the list with snapshot_name appended; it returns
\* Finished(Some(snapshot_name)); afterwards the name is in the list exactly
\* once, as its last element, however often the step is run.  A step that
\* fails writes nothing.
C11_UpdateHotDataRepeatSafe ==
    [][\A p \in Procs :
          pc[p] = "update_hot_data" =>
              LET snapshot_name == persistent_data[p].snapshot_name
                  n == Len(hotSnapshots)
              IN  /\ pc'[p] = "finished" =>
                        /\ IF n > 0 /\ hotSnapshots[n] = snapshot_name
                           THEN hotSnapshots' = hotSnapshots
                           ELSE hotSnapshots' = Append(hotSnapshots, snapshot_name)
                        /\ output'[p] = Some(snapshot_name)
                        /\ hotSnapshots'[Len(hotSnapshots')] = snapshot_name
                        /\ Occurrences(hotSnapshots', snapshot_name) = 1
                  /\ pc'[p] # "finished" => hotSnapshots' = hotSnapshots]_vars

\* The step is run again for a name that is already the last of the list.
C11_Witness ==
    \E p \in Procs :
        /\ pc[p] = "update_hot_data"
        /\ runs[p] >= 2
        /\ nSaves[p] = 0
        /\ Len(hotSnapshots) = 2
        /\ hotSnapshots[2] = persistent_data[p].snapshot_name
        /\ Unwrap(taken[p]).snapshots = hotSnapshots

\* C12: `start` gives an initial state only for a name that is not in the
\* hot-data snapshot list; when it fails, the data file and the bucket's
\* part objects are as they were and no run of the driver begins.
C12_StartRejectsSavedName ==
    [][\A p \in Procs :
          /\ (pc[p] = "idle" /\ pc'[p] = "do_step"
                /\ persistent_data'[p].step = "Diff") =>
                 Occurrences(hotSnapshots, persistent_data'[p].snapshot_name) = 0
          /\ (pc[p] = "idle" /\ runs'[p] # runs[p]
                /\ outcome'[p] = "start_err") =>
                 /\ data' = data
                 /\ objects' = objects
                 /\ hotSnapshots' = hotSnapshots
                 /\ pc'[p] = "idle"]_vars

\* `start` has failed while every name it can be given is already saved.
C12_Witness ==
    \E p \in Procs :
        /\ outcome[p] = "start_err"
        /\ \A name \in Names : Occurrences(hotSnapshots, name) = 1
        /\ data[p].backup_step = None
        /\ objects # <<>>

\* C13: a Diff step that returns gives Finished(None) exactly when the diff
\* is empty and allow_empty is false, and else NotFinished with no memory
\* data and the step Upload{the same name, the whole diff, 0 parts}; it
\* writes nothing to the bucket, and a run finished with None has left no
\* part of its snapshot and has not put its name into the hot data.
C13_DiffEmptyFinishesElseUpload ==
    [][\A p \in Procs :
          /\ (pc[p] = "do_step" /\ persistent_data[p].step = "Diff"
                /\ pc'[p] \in {"save", "finished"}) =>
                 LET backup_step_diff == persistent_data[p]
                     diff == zfsDiff[backup_step_diff.snapshot_name]
                 IN  /\ IF diff = <<>> /\ ~backup_step_diff.allow_empty
                        THEN pc'[p] = "finished" /\ output'[p] = None
                        ELSE /\ pc'[p] = "save"
                             /\ memory_data'[p] = None
                             /\ new_data'[p] =
                                  [step |-> "Upload",
                                   snapshot_name |-> backup_step_diff.snapshot_name,
                                   diff |-> diff, uploaded_objects |-> 0]
                     /\ objects' = objects
                     /\ hotSnapshots' = hotSnapshots
          /\ (pc[p] = "finished" /\ output[p] = None) =>
                 LET snapshot_name == persistent_data[p].snapshot_name
                 IN  /\ Occurrences(hotSnapshots, snapshot_name) = 0
                     /\ \A key \in DOMAIN objects :
                           key[1] # KeySnapshotName(config, snapshot_name)]_vars

\* A backup with nothing to save has finished after an earlier backup was
\* committed.
C13_Witness ==
    \E p \in Procs :
        /\ pc[p] = "finished"
        /\ output[p] = None
        /\ runs[p] >= 2
        /\ hotSnapshots # <<>>

\* ------------------------------------------------------------------------
\* `backup continue` on a data file left in the Upload step.  The count of
\* uploaded parts may exceed the parts of the diff: MAX_OBJECT_SIZE is a
\* constant of the build (config.rs 13-15), and the file may come from a
\* build with a smaller one.
\* ------------------------------------------------------------------------
\* The parts 0..n-1 of snapshot `name` as an uninterrupted upload leaves them.
PartsUploaded(cfg, name, diff, n) ==
    [key \in {<<KeySnapshotName(cfg, name), i>> : i \in 0..(n - 1)} |->
        [body |-> Part(FullStream(cfg, diff, Unwrap(StreamNonce(U64(0, 0, 0)))),
                       key[2]),
         writes |-> 1]]

InitResume ==
    /\ config \in {c \in Configs : ~c.encrypt_snapshot_names}
    /\ \E d \in DiffChoices : zfsDiff = [n \in Names |-> d]
    /\ active = {1}
    /\ \E k \in 0..(TotalObjectsCount(config, zfsDiff["snapA"]) + 1) :
          \* a build with smaller parts counts at most one part per byte
          /\ \/ k <= TotalObjectsCount(config, zfsDiff["snapA"])
             \/ k < SnapshotUploadSize(config, zfsDiff["snapA"])
          /\ data = [p \in Procs |->
                       IF p = 1
                       THEN [last_saved_snapshot_name |-> None,
                             backup_step |->
                                 Some(StepUpload("snapA", zfsDiff["snapA"], k))]
                       ELSE EmptyData]
          /\ objects = PartsUploaded(config, "snapA", zfsDiff["snapA"],
                            Min(k, TotalObjectsCount(config, zfsDiff["snapA"])))
    /\ hotSnapshots = <<>>
    /\ pc = [p \in Procs |-> "idle"]
    /\ memory_data = [p \in Procs |-> None]
    /\ persistent_data = [p \in Procs |-> NoStep]
    /\ new_data = [p \in Procs |-> NoStep]
    /\ output = [p \in Procs |-> None]
    /\ remote_hot_data = [p \in Procs |-> None]
    /\ taken = [p \in Procs |-> None]
    /\ outcome = [p \in Procs |-> "none"]
    /\ runs = [p \in Procs |-> 0]
    /\ firstCall = [p \in Procs |-> TRUE]
    /\ nNotFinished = [p \in Procs |-> 0]
    /\ nSaves = [p \in Procs |-> 0]
    /\ lastPut = [p \in Procs |-> None]
    /\ clean = [p \in Procs |-> FALSE]
    /\ InitNoStream

SpecResume == InitResume /\ [][Next]_vars

\* C14: an Upload step entered with uploaded_objects >= total_objects_count,
\* equal or greater, uploads nothing and returns NotFinished with the step
\* UpdateHotData{snapshot_name}.
C14_NothingLeftGoesToUpdateHotData ==
    [][\A p \in Procs :
          (/\ pc[p] = "do_step"
           /\ persistent_data[p].step = "Upload"
           /\ persistent_data[p].uploaded_objects
                >= TotalObjectsCount(config, persistent_data[p].diff)
           /\ pc'[p] = "save") =>
              /\ objects' = objects
              /\ new_data'[p] =
                   [step |-> "UpdateHotData",
                    snapshot_name |-> persistent_data[p].snapshot_name]]_vars

\* The part count as the claim states it, from the bytes the plaintext
\* stream has.
ExpectedParts(cfg, diff) ==
    LET plaintext_size == Len(Flatten(snapshot_upload_stream(diff, 0)))
        stream_size ==
            IF cfg.encryption
            THEN plaintext_size
                   + ((plaintext_size + ENCRYPTION_CHUNK_SIZE - 1)
                        \div ENCRYPTION_CHUNK_SIZE) * 16
            ELSE plaintext_size
        parts == (stream_size + MAX_OBJECT_SIZE - 1) \div MAX_OBJECT_SIZE
        least == IF cfg.create_empty_objects THEN 1 ELSE 0
    IN  IF parts > least THEN parts ELSE least

\* The part objects of a snapshot in the bucket.
PartsOf(name) ==
    {key \in DOMAIN objects : key[1] = KeySnapshotName(config, name)}

\* C15: when the Upload step has uploaded the last part of a diff, the
\* snapshot has max(ceil(stream_size / MAX_OBJECT_SIZE), 1 if
\* create_empty_objects else 0) parts, numbered from 0, with stream_size the
\* plaintext size, plus 16 bytes per encryption chunk when encrypted: an
\* empty plaintext gives one part of 0 bytes or no part, MAX_OBJECT_SIZE
\* bytes give one part and one byte more gives two.
C15_PartCount ==
    \A p \in Procs :
        (/\ pc[p] = "save"
         /\ persistent_data[p].step = "Upload"
         /\ new_data[p].step = "UpdateHotData") =>
            LET name == persistent_data[p].snapshot_name
                diff == persistent_data[p].diff
                n == ExpectedParts(config, diff)
            IN  /\ PartsOf(name)
                     = {<<KeySnapshotName(config, name), i>> : i \in 0..(n - 1)}
                /\ (diff = <<>> /\ config.create_empty_objects) =>
                      /\ n = 1
                      /\ objects[<<KeySnapshotName(config, name), 0>>].body = <<>>
                /\ (diff = <<>> /\ ~config.create_empty_objects) => n = 0

\* A stream of one byte more than MAX_OBJECT_SIZE has been uploaded in two
\* parts.
C15_Witness ==
    \E p \in Procs :
        /\ pc[p] = "save"
        /\ persistent_data[p].step = "Upload"
        /\ new_data[p].step = "UpdateHotData"
        /\ ~config.encryption
        /\ Len(Flatten(snapshot_upload_stream(persistent_data[p].diff, 0)))
             = MAX_OBJECT_SIZE + 1
        /\ Cardinality(PartsOf(persistent_data[p].snapshot_name)) = 2

\* C16: an Upload step with a part to PUT returns NotFinished with
\* uploaded_objects one higher (or UpdateHotData after the last part)
\* exactly when the PUT created the object or was answered 412; when it
\* fails otherwise the step returns the error, nothing is counted and the
\* data file keeps the checkpoint it had.
C16_CountedIffPutOkOr412 ==
    [][\A p \in Procs :
          (/\ pc[p] = "do_step"
           /\ persistent_data[p].step = "Upload"
           /\ persistent_data[p].uploaded_objects
                < TotalObjectsCount(config, persistent_data[p].diff)) =>
              LET step == persistent_data[p]
                  i == step.uploaded_objects
                  key == <<KeySnapshotName(config, step.snapshot_name), i>>
                  answered == /\ IsSome(lastPut'[p])
                              /\ lastPut'[p] # lastPut[p]
                              /\ Unwrap(lastPut'[p]).key = key
                  created == /\ key \notin DOMAIN objects
                             /\ key \in DOMAIN objects'
              IN  /\ pc'[p] = "save" <=>
                        /\ answered
                        /\ \/ Unwrap(lastPut'[p]).answer = "created" /\ created
                           \/ /\ Unwrap(lastPut'[p]).answer = "412"
                              /\ key \in DOMAIN objects
                              /\ objects' = objects
                  /\ pc'[p] = "save" =>
                        new_data'[p] =
                          IF i + 1 = TotalObjectsCount(config, step.diff)
                          THEN [step |-> "UpdateHotData",
                                snapshot_name |-> step.snapshot_name]
                          ELSE [step EXCEPT !.uploaded_objects = i + 1]
                  /\ outcome'[p] = "step_err" =>
                        /\ ~answered
                        /\ objects' = objects
                        /\ data' = data
                        /\ nSaves' = nSaves]_vars

\* A part that was in the bucket already has been counted after a 412.
C16_Witness ==
    \E p \in Procs :
        /\ pc[p] = "save"
        /\ new_data[p].step = "Upload"
        /\ IsSome(lastPut[p])
        /\ Unwrap(lastPut[p]).answer = "412"
        /\ new_data[p].uploaded_objects = Unwrap(lastPut[p]).key[2] + 1

\* C17: an encrypted Upload step entered without a stream in memory, at a
\* resume offset uploaded_objects * MAX_OBJECT_SIZE that is not a whole
\* number of cipher chunks (ENCRYPTION_CHUNK_SIZE + 16 bytes each), fails
\* and uploads no object.
C17_MisalignedResumeFails ==
    [][\A p \in Procs :
          (/\ pc[p] = "do_step"
           /\ persistent_data[p].step = "Upload"
           /\ persistent_data[p].uploaded_objects
                < TotalObjectsCount(config, persistent_data[p].diff)
           /\ config.encryption
           /\ memory_data[p] = None
           /\ (persistent_data[p].uploaded_objects * MAX_OBJECT_SIZE)
                % (ENCRYPTION_CHUNK_SIZE + TAG_SIZE) # 0) =>
              /\ objects' = objects
              /\ pc'[p] # "save"]_vars

\* C18: an Upload step with a part to PUT names the part's key, with a
\* fresh stream and with one from memory: snapshots/<keyed hash of the
\* name>/<i> when snapshot names are encrypted, snapshots/<name>/<i> when
\* not; every PUT that is answered went to that key.
C18_PartsUnderHashedKey ==
    \A p \in Procs :
        /\ (/\ pc[p] = "do_step"
            /\ persistent_data[p].step = "Upload"
            /\ persistent_data[p].uploaded_objects
                 < TotalObjectsCount(config, persistent_data[p].diff)) =>
               ~NoRemoteHotData(p)
        /\ (IsSome(lastPut[p]) /\ pc[p] = "save") =>
               Unwrap(lastPut[p]).key[1] =
                  IF config.encryption /\ config.encrypt_snapshot_names
                  THEN HashName(persistent_data[p].snapshot_name)
                  ELSE persistent_data[p].snapshot_name

\* ------------------------------------------------------------------------
\* The stream nonce alone: a snapshot count, then the nonce computed from it.
\* ------------------------------------------------------------------------
InitNonce ==
    /\ config = [encryption |-> TRUE, encrypt_snapshot_names |-> FALSE,
                 create_empty_objects |-> FALSE]
    /\ zfsDiff = [n \in Names |-> <<>>]
    /\ active = {}
    /\ InitProcs
    /\ sDiff = <<>>
    /\ sSkip = 0
    /\ sOut = None
    /\ \E hi \in {0, 1, 255, 256, 257, 65535},
          mid \in {0, 1, 65536, 16777215},
          lo \in {0, 1, 2, 255, 256, 16777215} :
          nCount = U64(hi, mid, lo)
    /\ nOut = [done |-> FALSE, result |-> None]
    /\ InitNoTake

NonceRun ==
    /\ ~nOut.done
    /\ nOut' = [done |-> TRUE, result |-> StreamNonce(nCount)]
    /\ UNCHANGED <<envVars, objects, hotSnapshots, pc, memory_data,
                   persistent_data, new_data, output, remote_hot_data, taken,
                   data, outcome, runs, firstCall, nNotFinished, nSaves,
                   lastPut, clean, sDiff, sSkip, sOut, nCount, takeVars, diffVars,
                   optimizeVars, passwordVars, lateVars>>

NextNonce == NonceRun

SpecNonce == InitNonce /\ [][NextNonce]_vars

\* C19: the nonce is the low 7 bytes of the big-endian 64-bit snapshot
\* count, and there is none (the step fails before it encrypts or uploads)
\* exactly when the count is 2^56 or more.
C19_NonceIsLow7BytesOrFails ==
    nOut.done =>
        \* 2^56 = 256 * 2^48
        /\ nOut.result = None <=> nCount.hi >= 256
        /\ IsSome(nOut.result) =>
              LET nonce == Unwrap(nOut.result)
              IN  /\ Len(nonce) = 7
                  /\ \A i \in 1..7 : nonce[i] \in 0..255
                  /\ nonce[1] = nCount.hi
                  /\ nonce[2] * 65536 + nonce[3] * 256 + nonce[4] = nCount.mid
                  /\ nonce[5] * 65536 + nonce[6] * 256 + nonce[7] = nCount.lo

\* The nonce of a count just below 2^56, and the failure at 2^56.
C19_Witness ==
    /\ nOut.done
    /\ nCount = U64(255, 16777215, 16777215)
    /\ nOut.result = Some(<<255, 255, 255, 255, 255, 255, 255>>)

RECURSIVE ChunksOfLens(_, _)
\* Upstream chunks of the given lengths; the bytes are numbered from
\* `first` in stream order.
ChunksOfLens(lens, first) ==
    IF lens = <<>> THEN <<>>
    ELSE <<[j \in 1..Head(lens) |-> first + j - 1]>>
         \o ChunksOfLens(Tail(lens), first + Head(lens))

UpstreamChoices ==
    UNION {{ChunksOfLens(lens, 1) : lens \in [1..k -> 0..MaxChunkLen]}
           : k \in 0..MaxChunks}

InitTake ==
    /\ config = [encryption |-> FALSE, encrypt_snapshot_names |-> FALSE,
                 create_empty_objects |-> FALSE]
    /\ zfsDiff = [n \in Names |-> <<>>]
    /\ active = {}
    /\ InitProcs
    /\ sDiff = <<>>
    /\ sSkip = 0
    /\ sOut = None
    /\ nCount = U64(0, 0, 0)
    /\ nOut = [done |-> FALSE, result |-> None]
    /\ \E chunks \in UpstreamChoices : tInner = try_chunks_streams(chunks)
    /\ tLast = None
    /\ InitNoDiff

TakeRun ==
    /\ ~(IsSome(tLast) /\ Unwrap(tLast).panic)
    /\ \E n_bytes \in 0..MaxTake :
          LET r == take_bytes_stream(tInner, n_bytes)
          IN  /\ tInner' = r.inner
              /\ tLast' = Some([n_bytes |-> n_bytes, out |-> r.out,
                                before |-> tInner, panic |-> r.panic])
    /\ UNCHANGED <<envVars, objects, hotSnapshots, pc, memory_data,
                   persistent_data, new_data, output, remote_hot_data, taken,
                   data, outcome, runs, firstCall, nNotFinished, nSaves,
                   lastPut, clean, sDiff, sSkip, sOut, nCount, nOut, diffVars,
                   optimizeVars, passwordVars, lateVars>>

NextTake == TakeRun

SpecTake == InitTake /\ [][NextTake]_vars

\* C21: a take of n bytes yields at most n bytes, whatever the upstream
\* chunk sizes and whatever the buffer holds from an earlier take, and
\* exactly n bytes unless the upstream ends first.
C21_TakeYieldsAtMostN ==
    IsSome(tLast) =>
        LET t == Unwrap(tLast)
        IN  /\ Len(t.out) <= t.n_bytes
            /\ \/ Len(t.out) = t.n_bytes
               \/ tInner.stream = <<>> /\ ~IsSome(tInner.buffer)

\* ------------------------------------------------------------------------
\* The Diff step alone: what zfs diff prints or what the directory walk
\* finds, then diff_or_first, then the resolution and the transition.
\* The dataset holds a directory with one file in it, and one more file.
\* ------------------------------------------------------------------------
DatasetPaths ==
    {[path |-> <<1>>, file_type |-> "Directory"],
     [path |-> <<1, 1>>, file_type |-> "RegularFile"],
     [path |-> <<2>>, file_type |-> "RegularFile"]}

\* What zfs diff can print about one path: nothing (<<>>) or one line.
ZfsLines(w) ==
    {<<>>}
    \cup {<<[path |-> w.path, file_type |-> w.file_type,
             diff_type |-> [tag |-> "Removed"]]>>}
    \cup {<<[path |-> w.path, file_type |-> w.file_type,
             diff_type |-> [tag |-> t, data |-> None]]>>
          : t \in {"Created", "Modified"}}
    \cup (IF w.path = <<2>>
          THEN {<<[path |-> w.path, file_type |-> w.file_type,
                   diff_type |-> [tag |-> "Renamed", to |-> <<3>>]]>>}
          ELSE {})

\* A created (removed) directory has only created (removed) children.
ZfsConsistent(dir, child) ==
    /\ (dir # <<>> /\ dir[1].diff_type.tag = "Removed")
          => (child = <<>> \/ child[1].diff_type.tag = "Removed")
    /\ (dir # <<>> /\ dir[1].diff_type.tag = "Created")
          => (child = <<>> \/ child[1].diff_type.tag = "Created")

\* The parsed lines, in any order: zfs diff does not print by path.
ZfsDiffOutputs ==
    UNION {flat_map_unordered(a \o b \o c) :
              <<a, b, c>> \in
                 {t \in ZfsLines([path |-> <<1>>, file_type |-> "Directory"])
                        \X ZfsLines([path |-> <<1, 1>>, file_type |-> "RegularFile"])
                        \X ZfsLines([path |-> <<2>>, file_type |-> "RegularFile"]) :
                     ZfsConsistent(t[1], t[2])}}

\* read_dir_recursive: every path of the dataset, a directory before what
\* it holds, otherwise in any order.
DirectoryWalks ==
    {w \in UNION {flat_map_unordered(<<a, b, c>>) :
                     <<a, b, c>> \in DatasetPaths \X DatasetPaths \X DatasetPaths} :
        /\ \A i, j \in 1..3 : i # j => w[i] # w[j]
        /\ \A i, j \in 1..3 :
              (w[i].file_type = "Directory" /\ i # j
                 /\ starts_with(w[j].path, w[i].path)) => i < j}

InitDiff ==
    /\ config = [encryption |-> FALSE, encrypt_snapshot_names |-> FALSE,
                 create_empty_objects |-> FALSE]
    /\ zfsDiff = [n \in Names |-> <<>>]
    /\ active = {}
    /\ InitProcs
    /\ sDiff = <<>>
    /\ sSkip = 0
    /\ sOut = None
    /\ nCount = U64(0, 0, 0)
    /\ nOut = [done |-> FALSE, result |-> None]
    /\ tInner = try_chunks_streams(<<>>)
    /\ tLast = None
    /\ dPrev \in BOOLEAN
    /\ dRaw \in (IF dPrev THEN ZfsDiffOutputs ELSE DirectoryWalks)
    /\ dSub = None
    /\ dStored = [done |-> FALSE, diff |-> None]
    /\ InitNoOptimize

notDiffVars ==
    <<envVars, objects, hotSnapshots, pc, memory_data, persistent_data,
      new_data, output, remote_hot_data, taken, data, outcome, runs,
      firstCall, nNotFinished, nSaves, lastPut, clean, sDiff, sSkip, sOut,
      nCount, nOut, takeVars, optimizeVars, passwordVars, lateVars>>

\* diff_or_first returns.
DiffOrFirstRun ==
    /\ dSub = None
    /\ \E diff_entries \in (IF dPrev THEN {diff_or_first_zfs(dRaw)}
                            ELSE diff_or_first_walk(dRaw)) :
          dSub' = Some(diff_entries)
    /\ UNCHANGED <<notDiffVars, dPrev, dRaw, dStored>>

\* The Diff step resolves the entries and returns: Upload with the diff, or
\* Finished(None) for an empty diff that is not allowed.
DiffResolveRun ==
    /\ IsSome(dSub)
    /\ ~dStored.done
    /\ \E diff \in ResolvedDiffs(Unwrap(dSub)), allow_empty \in BOOLEAN :
          dStored' = [done |-> TRUE,
                      diff |-> IF allow_empty \/ diff # <<>>
                               THEN Some(BackupStepDiff_next(
                                            StepDiff("snapA", allow_empty), diff).diff)
                               ELSE None]
    /\ UNCHANGED <<notDiffVars, dPrev, dRaw, dSub>>

NextDiff == DiffOrFirstRun \/ DiffResolveRun

SpecDiff == InitDiff /\ [][NextDiff]_vars

\* C22: the diff list of every Upload checkpoint is sorted by path
\* ascending, so that a directory entry precedes the entries of what it
\* holds, after zfs diff and after the first-backup directory walk alike.
C22_StoredDiffSortedByPath ==
    IsSome(dStored.diff) =>
        LET diff == Unwrap(dStored.diff)
        IN  /\ \A i, j \in 1..Len(diff) :
                  i < j => ~PathLess(diff[j].path, diff[i].path)
            /\ \A i, j \in 1..Len(diff) :
                  (/\ diff[i].file_type = "Directory"
                   /\ diff[i].path # diff[j].path
                   /\ starts_with(diff[j].path, diff[i].path)) => i < j

\* C23: the diff list of the Upload checkpoint is the optimizer's output
\* for the entries diff_or_first returned (resolved as the step resolves
\* them).
C23_StoredDiffIsOptimized ==
    IsSome(dStored.diff) =>
        LET optimized == optimize_diff_entries(Unwrap(dSub))
        IN  Unwrap(dStored.diff)
               = [i \in 1..Len(optimized) |-> ResolveEntry(optimized[i])]

\* ------------------------------------------------------------------------
\* optimize_diff_entries alone: an input list, the call, and a second call
\* on what the first one left.  The paths are 1, 1/1, 1/1/1, 1/2 and 2,
\* each listed at most once, in any order.
\* ------------------------------------------------------------------------
OptimizePaths ==
    {[path |-> <<1>>, file_type |-> "Directory"],
     [path |-> <<1, 1>>, file_type |-> "Directory"],
     [path |-> <<1, 1, 1>>, file_type |-> "RegularFile"],
     [path |-> <<1, 2>>, file_type |-> "RegularFile"],
     [path |-> <<2>>, file_type |-> "Directory"]}

\* DiffEntry<()> of the tests: the content data plays no part.
OptimizeEntries ==
    {[path |-> w.path, file_type |-> w.file_type, diff_type |-> [tag |-> t]] :
        w \in OptimizePaths, t \in {"Removed", "Created", "Modified"}}

OptimizeInputs ==
    UNION {{l \in [1..k -> OptimizeEntries] :
               \A i, j \in 1..k : i # j => l[i].path # l[j].path}
           : k \in 0..MaxEntries}

InitOptimize ==
    /\ config = [encryption |-> FALSE, encrypt_snapshot_names |-> FALSE,
                 create_empty_objects |-> FALSE]
    /\ zfsDiff = [n \in Names |-> <<>>]
    /\ active = {}
    /\ InitProcs
    /\ sDiff = <<>>
    /\ sSkip = 0
    /\ sOut = None
    /\ nCount = U64(0, 0, 0)
    /\ nOut = [done |-> FALSE, result |-> None]
    /\ tInner = try_chunks_streams(<<>>)
    /\ tLast = None
    /\ dPrev = FALSE
    /\ dRaw = <<>>
    /\ dSub = None
    /\ dStored = [done |-> FALSE, diff |-> None]
    /\ oIn \in OptimizeInputs
    /\ oOut = None
    /\ oAgain = None
    /\ InitNoPassword

notOptimizeVars ==
    <<envVars, objects, hotSnapshots, pc, memory_data, persistent_data,
      new_data, output, remote_hot_data, taken, data, outcome, runs,
      firstCall, nNotFinished, nSaves, lastPut, clean, sDiff, sSkip, sOut,
      nCount, nOut, takeVars, diffVars, passwordVars, lateVars>>

OptimizeRun ==
    /\ oOut = None
    /\ oOut' = Some(optimize_diff_entries(oIn))
    /\ UNCHANGED <<notOptimizeVars, oIn, oAgain>>

OptimizeAgain ==
    /\ IsSome(oOut)
    /\ oAgain = None
    /\ oAgain' = Some(optimize_diff_entries(Unwrap(oOut)))
    /\ UNCHANGED <<notOptimizeVars, oIn, oOut>>

NextOptimize == OptimizeRun \/ OptimizeAgain

SpecOptimize == InitOptimize /\ [][NextOptimize]_vars

\* C24: whatever the input list, the optimizer's output has no
\* (Directory, Modified) entry.
C24_NoModifiedDirectoryLeft ==
    IsSome(oOut) =>
        \A i \in 1..Len(Unwrap(oOut)) :
            ~(/\ Unwrap(oOut)[i].file_type = "Directory"
              /\ Unwrap(oOut)[i].diff_type.tag = "Modified")

\* C25: the optimizer's output has no (RegularFile, Removed) entry whose
\* parent directory is in the output as Removed; a removed directory with
\* removed files in it and nothing else becomes the directory entry alone.
C25_NoRemovedFileUnderRemovedDirectory ==
    IsSome(oOut) =>
        LET out == Unwrap(oOut)
            InsideFirst(l) ==
                \A i \in 2..Len(l) :
                    /\ l[i].file_type = "RegularFile"
                    /\ l[i].diff_type.tag = "Removed"
                    /\ starts_with(l[i].path, l[1].path)
        IN  /\ \A i, j \in 1..Len(out) :
                  ~(/\ out[i].file_type = "RegularFile"
                    /\ out[i].diff_type.tag = "Removed"
                    /\ out[j].file_type = "Directory"
                    /\ out[j].diff_type.tag = "Removed"
                    /\ out[j].path = SubSeq(out[i].path, 1, Len(out[i].path) - 1))
            /\ (/\ Len(sort_by_key(oIn)) >= 2
                /\ sort_by_key(oIn)[1].file_type = "Directory"
                /\ sort_by_key(oIn)[1].diff_type.tag = "Removed"
                /\ InsideFirst(sort_by_key(oIn)))
                  => out = <<sort_by_key(oIn)[1]>>

\* C26: the optimizer's output has no (Directory, Created) entry together
\* with an entry that lies inside that directory.
C26_NoCreatedDirectoryWithContent ==
    IsSome(oOut) =>
        \A i, j \in 1..Len(Unwrap(oOut)) :
            ~(/\ Unwrap(oOut)[i].file_type = "Directory"
              /\ Unwrap(oOut)[i].diff_type.tag = "Created"
              /\ i # j
              /\ starts_with(Unwrap(oOut)[j].path, Unwrap(oOut)[i].path))

\* C27: the optimizer applied to its own output changes nothing.
C27_OptimizeIdempotent ==
    IsSome(oAgain) => oAgain = oOut

\* ------------------------------------------------------------------------
\* check-password and change-password alone: a hot-data object as init and
\* the backups left it, a config with or without a password, then the two
\* commands in any order.
\* ------------------------------------------------------------------------
Passwords == {"p1", "p2"}

HotDataChoices ==
    {[snapshots |-> <<>>, sqs |-> "sqs"],
     [snapshots |-> <<"snapA">>, sqs |-> "sqs"],
     [snapshots |-> <<"snapA", "snapB">>, sqs |-> "sqs"]}

\* The object after init with or without a password and some backups.
HotObjectChoices ==
    {NotEncrypted(d) : d \in HotDataChoices}
    \cup {Encrypted(init_encryption_data(pw),
                    [cipher_key |-> "immutable_key", plaintext |-> d]) :
             pw \in Passwords, d \in HotDataChoices}

InitPassword ==
    /\ config = [encryption |-> FALSE, encrypt_snapshot_names |-> FALSE,
                 create_empty_objects |-> FALSE]
    /\ zfsDiff = [n \in Names |-> <<>>]
    /\ active = {}
    /\ InitProcs
    /\ sDiff = <<>>
    /\ sSkip = 0
    /\ sOut = None
    /\ nCount = U64(0, 0, 0)
    /\ nOut = [done |-> FALSE, result |-> None]
    /\ tInner = try_chunks_streams(<<>>)
    /\ tLast = None
    /\ dPrev = FALSE
    /\ dRaw = <<>>
    /\ dSub = None
    /\ dStored = [done |-> FALSE, diff |-> None]
    /\ oIn = <<>>
    /\ oOut = None
    /\ oAgain = None
    /\ hHot \in HotObjectChoices
    /\ hConfig \in {None} \cup {Some(pw) : pw \in Passwords}
    /\ hSalts = 0
    /\ hLast = None
    /\ InitNoLate

notPasswordVars ==
    <<envVars, objects, hotSnapshots, pc, memory_data, persistent_data,
      new_data, output, remote_hot_data, taken, data, outcome, runs,
      firstCall, nNotFinished, nSaves, lastPut, clean, sDiff, sSkip, sOut,
      nCount, nOut, takeVars, diffVars, optimizeVars, lateVars>>

CheckPasswordRun ==
    /\ hLast' = Some([command |-> "check-password",
                      ok |-> check_password_command(hConfig, hHot),
                      downloaded |-> IsSome(download_hot_data(hConfig, hHot)),
                      new_password |-> None,
                      before |-> hHot])
    /\ UNCHANGED <<notPasswordVars, hHot, hConfig, hSalts>>

ChangePasswordRun ==
    /\ hSalts < MaxSaltDraws
    /\ \E new_password \in Passwords :
          LET put == change_password_command(hConfig, hHot, new_password,
                                             hSalts + 1)
          IN  /\ hHot' = IF IsSome(put) THEN Unwrap(put) ELSE hHot
              /\ hLast' = Some([command |-> "change-password",
                                ok |-> IsSome(put),
                                downloaded |->
                                    IsSome(download_hot_data(hConfig, hHot)),
                                new_password |-> Some(new_password),
                                before |-> hHot])
    /\ hSalts' = hSalts + 1
    /\ UNCHANGED <<notPasswordVars, hConfig>>

NextPassword == CheckPasswordRun \/ ChangePasswordRun

SpecPassword == InitPassword /\ [][NextPassword]_vars

\* C28: a config with a password against a NotEncrypted object, and a
\* config without a password against an Encrypted object, both make the
\* download of the hot data (and so check-password) fail.
C28_ConfigRemoteMismatchFails ==
    (/\ IsSome(hLast)
     /\ Unwrap(hLast).command = "check-password"
     /\ IsSome(hConfig) # (Unwrap(hLast).before.tag = "Encrypted"))
        => (~Unwrap(hLast).downloaded /\ ~Unwrap(hLast).ok)

C30_ChangePasswordFrame ==
    (/\ IsSome(hLast)
     /\ Unwrap(hLast).command = "change-password"
     /\ IsSome(hConfig)
     /\ check_password_command(hConfig, Unwrap(hLast).before)
     /\ Unwrap(hLast).before.tag = "Encrypted")
        => LET before == Unwrap(hLast).before
               opened == RemoteHotData_decrypt(hHot, Unwrap(hLast).new_password)
           IN  /\ hHot.tag = "Encrypted"
               /\ hHot.encryption_data.encrypted_immutable_key.immutable_key
                    = before.encryption_data.encrypted_immutable_key.immutable_key
               /\ hHot.encryption_data.aes_256_gcm_salt
                    = before.encryption_data.aes_256_gcm_salt
               /\ hHot.encryption_data.blake3_salt
                    = before.encryption_data.blake3_salt
               /\ IsSome(opened)
               /\ Unwrap(opened).data
                    = Unwrap(RemoteHotData_decrypt(before, hConfig)).data

\* ------------------------------------------------------------------------
\* parse_zfs_diff_output alone: the lines zfs diff -FHh prints, each a list
\* of columns joined by tabs and ended by a line feed, then the parse.
\* ------------------------------------------------------------------------
RECURSIVE JoinWith(_, _)
JoinWith(pieces, sep) ==
    IF pieces = <<>> THEN <<>>
    ELSE IF Len(pieces) = 1 THEN pieces[1]
    ELSE pieces[1] \o <<sep>> \o JoinWith(Tail(pieces), sep)

RECURSIVE ZfsDiffText(_)
ZfsDiffText(cols) ==
    IF cols = <<>> THEN <<>>
    ELSE JoinWith(Head(cols), "\t") \o <<"\n">> \o ZfsDiffText(Tail(cols))

\* Lines with known and unknown markers, with and without a rename target,
\* with and without <xattrdir> in the path.
LineChoices ==
    {<<<<"+">>, <<"F">>, <<"a">>>>,
     <<<<"-">>, <<"/">>, <<"b">>>>,
     <<<<"M">>, <<"F">>, <<"a", "b">>>>,
     <<<<"R">>, <<"F">>, <<"a">>, <<"b">>>>,
     <<<<"R">>, <<"F">>, <<"a">>>>,
     <<<<"?">>, <<"F">>, <<"a">>>>,
     <<<<"+">>, <<"?">>, <<"a">>>>,
     <<<<"+">>, <<"/">>, <<"a", "x">>>>,
     <<<<"+">>, <<"F">>, <<"a", "x", "b">>>>,
     <<<<"?">>, <<"?">>, <<"x">>>>,
     <<<<"R">>, <<"F">>, <<"x", "a">>>>}

\* Nothing but the specification at hand has started.
InitMainIdle ==
    /\ config = [encryption |-> FALSE, encrypt_snapshot_names |-> FALSE,
                 create_empty_objects |-> FALSE]
    /\ zfsDiff = [n \in Names |-> <<>>]
    /\ active = {}
    /\ InitProcs
    /\ sDiff = <<>>
    /\ sSkip = 0
    /\ sOut = None
    /\ nCount = U64(0, 0, 0)
    /\ nOut = [done |-> FALSE, result |-> None]
    /\ tInner = try_chunks_streams(<<>>)
    /\ tLast = None
    /\ dPrev = FALSE
    /\ dRaw = <<>>
    /\ dSub = None
    /\ dStored = [done |-> FALSE, diff |-> None]
    /\ oIn = <<>>
    /\ oOut = None
    /\ oAgain = None
    /\ hHot = NotEncrypted([snapshots |-> <<>>])
    /\ hConfig = None
    /\ hSalts = 0
    /\ hLast = None

InitParse ==
    /\ InitMainIdle
    /\ InitNoMount
    /\ InitNoAuto
    /\ zCols \in UNION {[1..k -> LineChoices] : k \in 0..MaxLines}
    /\ zOut = None

ParseRun ==
    /\ zOut = None
    /\ zOut' = Some(parse_zfs_diff_output(ZfsDiffText(zCols)))
    /\ UNCHANGED <<notLateVars, mountVars, autoVars, zCols>>

NextParse == ParseRun

SpecParse == InitParse /\ [][NextParse]_vars

\* What the claim expects of one line that is not dropped.
ExpectedEntry(cols) ==
    [path |-> cols[3],
     file_type |-> IF cols[2] = <<"/">> THEN "Directory" ELSE "RegularFile",
     diff_type |-> CASE cols[1] = <<"-">> -> [tag |-> "Removed"]
                     [] cols[1] = <<"+">> -> [tag |-> "Created", data |-> None]
                     [] cols[1] = <<"M">> -> [tag |-> "Modified", data |-> None]
                     [] OTHER -> [tag |-> "Renamed", to |-> cols[4]]]

BadLine(cols) ==
    \/ cols[1] \notin {<<"-">>, <<"+">>, <<"M">>, <<"R">>}
    \/ cols[2] \notin {<<"/">>, <<"F">>}
    \/ cols[1] = <<"R">> /\ Len(cols) < 4

\* C31: the parse returns one entry per line, in the order of the lines,
\* without the lines whose path holds <xattrdir>; a line (not dropped) with
\* an unknown change marker or kind marker, or a rename line without a
\* target, makes the whole parse fail.
C31_ParseOneEntryPerLine ==
    IsSome(zOut) =>
        LET kept == SelectSeq(zCols, LAMBDA cols : ~ContainsXattrdir(cols[3]))
            result == Unwrap(zOut)
        IN  /\ IsSome(result) <=> (\A i \in 1..Len(kept) : ~BadLine(kept[i]))
            /\ IsSome(result) =>
                  Unwrap(result) = [i \in 1..Len(kept) |-> ExpectedEntry(kept[i])]

C31_Witness ==
    /\ IsSome(zOut)
    /\ IsSome(Unwrap(zOut))
    /\ Len(Unwrap(Unwrap(zOut))) = 1
    /\ Len(zCols) = 2
    /\ ContainsXattrdir(zCols[1][3])
    /\ Unwrap(Unwrap(zOut))[1].diff_type.tag = "Renamed"

\* ------------------------------------------------------------------------
\* diff_or_first on the paths the system gives it: zfs diff prints every
\* path with the mount point of the dataset in front (the lines of the test
\* of diff_entry.rs), and read_dir_recursive(mount_point) yields the paths
\* of the directory entries, which start with the mount point.
\* ------------------------------------------------------------------------
MountPoint == <<8, 9>>

Mounted(e) ==
    LET abs == [e EXCEPT !.path = MountPoint \o @]
    IN  IF "diff_type" \in DOMAIN e /\ e.diff_type.tag = "Renamed"
        THEN [abs EXCEPT !.diff_type.to = MountPoint \o @]
        ELSE abs

ZfsDiffPrinted ==
    {[i \in 1..Len(o) |-> Mounted(o[i])] : o \in ZfsDiffOutputs}

ReadDirRecursive ==
    {[i \in 1..Len(w) |-> Mounted(w[i])] : w \in DirectoryWalks}

InitMount ==
    /\ InitMainIdle
    /\ InitNoParse
    /\ InitNoAuto
    /\ mPrev \in BOOLEAN
    /\ mRaw \in (IF mPrev THEN ZfsDiffPrinted ELSE ReadDirRecursive)
    /\ mOut = None

\* diff_or_first returns.
MountDiffRun ==
    /\ mOut = None
    /\ \E r \in diff_or_first(mPrev, mRaw, MountPoint) : mOut' = Some(r)
    /\ UNCHANGED <<notLateVars, parseVars, autoVars, mPrev, mRaw>>

NextMount == MountDiffRun

SpecMount == InitMount /\ [][NextMount]_vars

\* C32: every entry diff_or_first returns has a path relative to the mount
\* of the dataset, that is, the path the system gave with the mount point
\* taken off, after zfs diff and after the first-backup walk alike.
C32_PathsRelativeToMount ==
    (IsSome(mOut) /\ IsSome(Unwrap(mOut))) =>
        \A i \in 1..Len(Unwrap(Unwrap(mOut))) :
            \E j \in 1..Len(mRaw) :
                mRaw[j].path = MountPoint \o Unwrap(Unwrap(mOut))[i].path

\* The same for the walk of the first backup alone (this part holds).
C32_WalkPathsRelativeToMount ==
    (~mPrev /\ IsSome(mOut) /\ IsSome(Unwrap(mOut))) =>
        \A i \in 1..Len(Unwrap(Unwrap(mOut))) :
            \E j \in 1..Len(mRaw) :
                mRaw[j].path = MountPoint \o Unwrap(Unwrap(mOut))[i].path

\* ------------------------------------------------------------------------
\* run / auto_back (run.rs, auto_back.rs) and backup (backup.rs): one
\* process that is invoked again and again on the same save data file.
\* ------------------------------------------------------------------------
MaxInvocations == 4
UploadParts == 2

SnapshotPrefix == <<"b">>

\* format!("{n}") of a usize: its decimal digits.
Digit(d) == <<"0", "1", "2", "3", "4", "5", "6", "7", "8", "9">>[d + 1]

RECURSIVE Decimal(_)
Decimal(n) ==
    IF n < 10 THEN <<Digit(n)>> ELSE Decimal(n \div 10) \o <<Digit(n % 10)>>

\* format!("{snapshot_prefix}{snapshot_number}")
SnapshotName(snapshot_prefix, snapshot_number) ==
    snapshot_prefix \o Decimal(snapshot_number)

\* usize::checked_sub(1)
checked_sub_1(n) == IF n >= 1 THEN Some(n - 1) ELSE None

\* BackupSaveData
CreatingSnapshot == [phase |-> "CreatingSnapshot"]
SendingToFile == [phase |-> "SendingToFile"]
Uploading(upload_save_data) ==
    [phase |-> "Uploading", data |-> upload_save_data]
RemovingFile == [phase |-> "RemovingFile"]

\* UploadSaveData::default(): no part uploaded.
UploadSaveDataDefault == 0

\* The locals auto_back computes before it calls backup (lines 41-58).
AutoBackLocals(save_data, snapshot_prefix) ==
    LET progress == IF save_data.backing_up_progress = None
                    THEN Some(CreatingSnapshot)
                    ELSE save_data.backing_up_progress
        snapshot_number == save_data.snapshots_backed_up
        previous == checked_sub_1(save_data.snapshots_backed_up)
        previous_snapshot_name ==
            IF IsSome(previous)
            THEN Some(SnapshotName(snapshot_prefix, Unwrap(previous)))
            ELSE None
        snapshot_name == SnapshotName(snapshot_prefix, snapshot_number)
        object_name == IF IsSome(previous_snapshot_name)
                       THEN Unwrap(previous_snapshot_name) \o <<"_">>
                               \o snapshot_name
                       ELSE snapshot_name
    IN  [save_data |-> [save_data EXCEPT !.backing_up_progress = progress],
         snapshot_name |-> snapshot_name,
         diff_from |-> previous_snapshot_name,
         file_path |-> object_name,
         backup_save_data |-> Unwrap(progress)]

Event(kind, phase) == [kind |-> kind, phase |-> phase]

Logged(kind, phase, failed) ==
    [aLog EXCEPT !.events = Append(@, Event(kind, phase)),
                 !.failed = @ \/ failed]

\* The invocation returns res (or panics on it, run_cli.rs 103).
AutoReturn(res) ==
    /\ aPc' = "idle"
    /\ aRes' = res
    /\ aMem' = None

FileAt(path) == {f \in aFiles : f.path = path}

\* A chain of ifs that goes to the last phase whatever was saved.
PhaseToRunLast(save_data) == "RemovingFile"

\* The chain of ifs of backup: the first phase whose work runs.
PhaseToRun(save_data) == save_data.phase

\* run_cli reads the save data file and calls run, which calls backup with
\* the progress of the file (CreatingSnapshot if there is none).
AutoBackStart ==
    /\ aPc = "idle"
    /\ aRuns < MaxInvocations
    /\ aRuns' = aRuns + 1
    /\ LET locals == AutoBackLocals(aDisk, SnapshotPrefix)
       IN  /\ aMem' = Some(locals)
           /\ aPc' = PhaseToRun(locals.backup_save_data)
           /\ aLog' = [start |-> IF aDisk.backing_up_progress = None
                                 THEN "CreatingSnapshot"
                                 ELSE Unwrap(aDisk.backing_up_progress).phase,
                       after_crash |-> aRes = "crashed",
                       failed |-> FALSE,
                       start_count |-> aDisk.snapshots_backed_up,
                       events |-> <<>>]
    /\ UNCHANGED <<notLateVars, parseVars, mountVars, aDisk, aSnaps, aFiles,
                   aRes, aDone>>

\* zfs_ensure_snapshot: zfs snapshot, and zfs list if that failed.
ZfsEnsureSnapshot ==
    /\ aPc = "CreatingSnapshot"
    /\ \E take_fails, list_fails \in BOOLEAN :
          LET m == Unwrap(aMem)
              exists == m.snapshot_name \in aSnaps
              took == ~take_fails /\ ~exists
              ok == took \/ (~list_fails /\ exists)
          IN  /\ (list_fails => ~took)
              /\ aSnaps' = IF took THEN aSnaps \cup {m.snapshot_name} ELSE aSnaps
              /\ IF ok
                 THEN /\ aMem' = Some([m EXCEPT !.backup_save_data = SendingToFile])
                      /\ aPc' = "save"
                      /\ aLog' = Logged("work", "CreatingSnapshot",
                                        take_fails \/ list_fails)
                      /\ aRes' = aRes
                 ELSE /\ AutoReturn("Backup.Snapshot")
                      /\ aLog' = Logged("failed", "CreatingSnapshot", TRUE)
    /\ UNCHANGED <<notLateVars, parseVars, mountVars, aDisk, aFiles, aDone,
                   aRuns>>

\* callbacks.save(&save_data) of backup: the closure of auto_back puts the
\* phase in its state and writes the save data file.
SaveNextPhase ==
    /\ aPc = "save"
    /\ \E save_fails \in BOOLEAN :
          LET m == Unwrap(aMem)
              save_data == [m.save_data EXCEPT
                               !.backing_up_progress = Some(m.backup_save_data)]
          IN  IF save_fails
              THEN /\ AutoReturn("Backup.Save")
                   /\ aLog' = Logged("save_failed", m.backup_save_data.phase, TRUE)
                   /\ aDisk' = aDisk
              ELSE /\ aDisk' = save_data
                   /\ aMem' = Some([m EXCEPT !.save_data = save_data])
                   /\ aPc' = PhaseToRun(m.backup_save_data)
                   /\ aLog' = Logged("save_next", m.backup_save_data.phase, FALSE)
                   /\ aRes' = aRes
    /\ UNCHANGED <<notLateVars, parseVars, mountVars, aSnaps, aFiles, aDone,
                   aRuns>>

\* The file is opened (created, truncated) and zfs send writes into it.
ZfsSendToFile ==
    /\ aPc = "SendingToFile"
    /\ \E open_fails, send_fails \in BOOLEAN :
          LET m == Unwrap(aMem)
              others == aFiles \ FileAt(m.file_path)
              sendable == /\ m.snapshot_name \in aSnaps
                          /\ IsSome(m.diff_from) => Unwrap(m.diff_from) \in aSnaps
              file(whole) == [path |-> m.file_path, snapshot |-> m.snapshot_name,
                              from |-> m.diff_from, whole |-> whole]
          IN  /\ (open_fails => ~send_fails)
              /\ IF open_fails
                 THEN /\ AutoReturn("Backup.Open")
                      /\ aLog' = Logged("failed", "SendingToFile", TRUE)
                      /\ aFiles' = aFiles
                 ELSE IF send_fails \/ ~sendable
                 THEN /\ AutoReturn("Backup.Send")
                      /\ aLog' = Logged("failed", "SendingToFile", send_fails)
                      /\ aFiles' = others \cup {file(FALSE)}
                 ELSE /\ aFiles' = others \cup {file(TRUE)}
                      /\ aMem' = Some([m EXCEPT !.backup_save_data =
                                          Uploading(UploadSaveDataDefault)])
                      /\ aPc' = "save"
                      /\ aLog' = Logged("work", "SendingToFile", FALSE)
                      /\ aRes' = aRes
    /\ UNCHANGED <<notLateVars, parseVars, mountVars, aDisk, aSnaps, aDone,
                   aRuns>>

\* metadata of the file, then upload_2 (crate rcs3ud) from the saved
\* UploadSaveData: one part is put and the progress is saved through
\* Callbacks::save, as Uploading(data).
UploadOnePart ==
    /\ aPc = "Uploading"
    /\ Unwrap(aMem).backup_save_data.data < UploadParts
    /\ \E put_fails, save_fails \in BOOLEAN :
          LET m == Unwrap(aMem)
              next == Uploading(m.backup_save_data.data + 1)
              save_data == [m.save_data EXCEPT !.backing_up_progress = Some(next)]
          IN  /\ (put_fails => ~save_fails)
              /\ IF FileAt(m.file_path) = {}
                 THEN /\ AutoReturn("Backup.Metadata")
                      /\ aLog' = Logged("failed", "Uploading", FALSE)
                      /\ aDisk' = aDisk
                 ELSE IF put_fails \/ save_fails
                 THEN /\ AutoReturn("Backup.Upload")
                      /\ aLog' = Logged("failed", "Uploading", TRUE)
                      /\ aDisk' = aDisk
                 ELSE /\ aDisk' = save_data
                      /\ aMem' = Some([m EXCEPT !.save_data = save_data,
                                               !.backup_save_data = next])
                      /\ aPc' = "Uploading"
                      /\ aLog' = Logged("work", "Uploading", FALSE)
                      /\ aRes' = aRes
    /\ UNCHANGED <<notLateVars, parseVars, mountVars, aSnaps, aFiles, aDone,
                   aRuns>>

\* upload_2 has nothing left to put and returns Ok.
UploadReturns ==
    /\ aPc = "Uploading"
    /\ Unwrap(aMem).backup_save_data.data >= UploadParts
    /\ LET m == Unwrap(aMem)
       IN  IF FileAt(m.file_path) = {}
           THEN /\ AutoReturn("Backup.Metadata")
                /\ aLog' = Logged("failed", "Uploading", FALSE)
           ELSE /\ aMem' = Some([m EXCEPT !.backup_save_data = RemovingFile])
                /\ aPc' = "save"
                /\ aLog' = Logged("work", "Uploading", FALSE)
                /\ aRes' = aRes
    /\ UNCHANGED <<notLateVars, parseVars, mountVars, aDisk, aSnaps, aFiles,
                   aDone, aRuns>>

\* remove_file(&file_path): an error if the file is not there.
RemoveFile ==
    /\ aPc = "RemovingFile"
    /\ \E remove_fails \in BOOLEAN :
          LET m == Unwrap(aMem)
          IN  IF remove_fails \/ FileAt(m.file_path) = {}
              THEN /\ AutoReturn("Backup.RemoveFile")
                   /\ aLog' = Logged("failed", "RemovingFile", remove_fails)
                   /\ aFiles' = aFiles
              ELSE /\ aFiles' = aFiles \ FileAt(m.file_path)
                   /\ aPc' = "returned"
                   /\ aLog' = Logged("work", "RemovingFile", FALSE)
                   /\ UNCHANGED <<aMem, aRes>>
    /\ UNCHANGED <<notLateVars, parseVars, mountVars, aDisk, aSnaps, aDone,
                   aRuns>>

\* A final save that writes the state it was given unchanged.
FinalStateNotCounted(save_data) == save_data

\* backup returned Ok: the state auto_back saves last (lines 86-87).
FinalState(save_data) ==
    [save_data EXCEPT !.snapshots_backed_up = @ + 1,
                      !.backing_up_progress = None]

AutoBackFinish ==
    /\ aPc = "returned"
    /\ \E save_fails \in BOOLEAN :
          LET m == Unwrap(aMem)
          IN  IF save_fails
              THEN /\ AutoReturn("Save")
                   /\ aLog' = [aLog EXCEPT !.failed = TRUE]
                   /\ UNCHANGED <<aDisk, aDone>>
              ELSE /\ aDisk' = FinalState(m.save_data)
                   /\ aDone' = Append(aDone, [snapshot |-> m.snapshot_name,
                                              from |-> m.diff_from])
                   /\ AutoReturn("Ok")
                   /\ aLog' = aLog
    /\ UNCHANGED <<notLateVars, parseVars, mountVars, aSnaps, aFiles, aRuns>>

\* The process is killed: its memory is lost; a zfs send that was writing
\* may have left the file truncated or partly written.
AutoCrash ==
    /\ aPc # "idle"
    /\ aPc' = "idle"
    /\ aRes' = "crashed"
    /\ aMem' = None
    /\ \E in_send \in BOOLEAN :
          LET m == Unwrap(aMem)
          IN  aFiles' = IF in_send /\ aPc = "SendingToFile"
                        THEN (aFiles \ FileAt(m.file_path))
                                \cup {[path |-> m.file_path,
                                       snapshot |-> m.snapshot_name,
                                       from |-> m.diff_from, whole |-> FALSE]}
                        ELSE aFiles
    /\ UNCHANGED <<notLateVars, parseVars, mountVars, aDisk, aSnaps, aLog,
                   aDone, aRuns>>

\* init_auto_back writes state: Default::default().
InitAuto ==
    /\ InitMainIdle
    /\ InitNoParse
    /\ InitNoMount
    /\ InitNoAuto

NextAuto ==
    \/ AutoBackStart
    \/ ZfsEnsureSnapshot
    \/ SaveNextPhase
    \/ ZfsSendToFile
    \/ UploadOnePart
    \/ UploadReturns
    \/ RemoveFile
    \/ AutoBackFinish
    \/ AutoCrash

SpecAuto == InitAuto /\ [][NextAuto]_vars

\* C33: an invocation of run that starts from the save data file a crashed
\* invocation left, and in which no command, request or save fails, ends
\* with Ok and with the file holding the count of the start plus one and no
\* progress.
C33_RerunAfterCrashCompletes ==
    (/\ aPc = "idle"
     /\ aRes # "crashed"
     /\ aLog.after_crash
     /\ ~aLog.failed)
        => /\ aRes = "Ok"
           /\ aDisk = [snapshots_backed_up |-> aLog.start_count + 1,
                       backing_up_progress |-> None]

\* The names the doc comments give: <prefix>0, <prefix>1, ...
ExpectedName(n) == <<"b", <<"0", "1", "2", "3", "4", "5", "6">>[n + 1]>>

ExpectedFrom(n) == IF n > 0 THEN Some(ExpectedName(n - 1)) ELSE None

PhaseIndex(phase) ==
    CASE phase = "CreatingSnapshot" -> 1
      [] phase = "SendingToFile" -> 2
      [] phase = "Uploading" -> 3
      [] phase = "RemovingFile" -> 4

\* C39: what an invocation of backup does is in the order of the phases;
\* work of a phase after the one the call started from comes after the save
\* of that phase, which comes after the work of the phase before it; a
\* failed save is the last thing done and the call ends with
\* BackupError::Save; nothing is done for a phase before the saved one.
C39_PhasesInOrder ==
    aLog.start # "none" =>
        LET ev == aLog.events
            N == Len(ev)
        IN  /\ \A i, j \in 1..N :
                  i < j => PhaseIndex(ev[i].phase) <= PhaseIndex(ev[j].phase)
            /\ \A i \in 1..N :
                  PhaseIndex(ev[i].phase) >= PhaseIndex(aLog.start)
            /\ \A j \in 1..N :
                  (/\ ev[j].kind \in {"work", "failed"}
                   /\ PhaseIndex(ev[j].phase) > PhaseIndex(aLog.start))
                     => \E i \in 1..(j - 1) :
                           ev[i] = Event("save_next", ev[j].phase)
            /\ \A i \in 1..N :
                  ev[i].kind \in {"save_next", "save_failed"}
                     => \E k \in 1..(i - 1) :
                           /\ ev[k].kind = "work"
                           /\ PhaseIndex(ev[k].phase) = PhaseIndex(ev[i].phase) - 1
            /\ \A i \in 1..N :
                  ev[i].kind = "save_failed"
                     => i = N /\ aPc = "idle" /\ aRes = "Backup.Save"

\* A call that started from the saved phase Uploading and got to removing
\* the file.
C39_Witness ==
    /\ aLog.start = "Uploading"
    /\ aLog.events # <<>>
    /\ aLog.events[Len(aLog.events)] = Event("work", "RemovingFile")

\* A call whose save of the next phase failed.
C39_SaveFailedWitness ==
    /\ aLog.events # <<>>
    /\ aLog.events[Len(aLog.events)] = Event("save_failed", "Uploading")

\* C35: within one run, when the PUT of part k was answered 412 and the
\* next step PUTs part k + 1 from the stream kept in memory, the object
\* created is bytes [(k+1)*MAX_OBJECT_SIZE, (k+2)*MAX_OBJECT_SIZE) of the
\* full stream.
C35_PartAfter412IsNextSlice ==
    [][\A p \in Procs :
          (/\ IsSome(lastPut[p])
           /\ Unwrap(lastPut[p]).answer = "412"
           /\ IsSome(memory_data[p])
           /\ IsSome(lastPut'[p])
           /\ Unwrap(lastPut'[p]).answer = "created"
           /\ Unwrap(lastPut'[p]).key =
                 <<Unwrap(lastPut[p]).key[1], Unwrap(lastPut[p]).key[2] + 1>>)
             => LET put == Unwrap(lastPut'[p])
                IN  objects'[put.key].body =
                       Part(FullStream(config, put.diff, put.nonce), put.key[2])]_vars

\* The cipher bytes stored in the bucket (all under the one content key of
\* the bucket).
StoredCipherBytes ==
    UNION {{objects[k].body[j] : j \in 1..Len(objects[k].body)} : k \in DOMAIN objects}

\* C36: over all runs on one bucket, no two different plaintext chunks are
\* encrypted under the same stream nonce and chunk counter: two cipher
\* bytes of the same nonce, counter and position come from the same
\* plaintext.
C36_NoNonceCounterReuse ==
    config.encryption =>
        \A b1, b2 \in StoredCipherBytes :
            (b1.nonce = b2.nonce /\ b1.counter = b2.counter /\ b1.pos = b2.pos)
               => b1.of = b2.of

\* What a ChunksStreamOfStreams has still to give: its buffer, then the
\* upstream chunks not yet pulled.
Remaining(inner) ==
    (IF IsSome(inner.buffer) THEN Unwrap(inner.buffer) ELSE <<>>)
       \o Flatten(inner.stream)

IsSuffixOf(s, t) ==
    Len(s) <= Len(t) /\ s = SubSeq(t, Len(t) - Len(s) + 1, Len(t))

\* C37: what a take yields is the front of what the stream had still to
\* give, and a take consumed to its end leaves exactly the rest, so that
\* the takes together yield a prefix of the upstream, nothing lost,
\* repeated or out of place; the buffer holds at most the end of one
\* upstream chunk.
C37_TakesYieldPrefix ==
    IsSome(tLast) =>
        LET t == Unwrap(tLast)
            before == Remaining(t.before)
        IN  /\ Len(t.out) <= Len(before)
            /\ t.out = SubSeq(before, 1, Len(t.out))
            /\ ~t.panic => Remaining(tInner) = Drop(before, Len(t.out))
            /\ IsSome(tInner.buffer) =>
                  \/ tInner.buffer = t.before.buffer
                  \/ \E i \in 1..Len(t.before.stream) :
                        IsSuffixOf(Unwrap(tInner.buffer), t.before.stream[i])

\* A take that began with bytes in the buffer, pulled further chunks and
\* split the last one.
C37_Witness ==
    /\ IsSome(tLast)
    /\ IsSome(Unwrap(tLast).before.buffer)
    /\ Unwrap(Unwrap(tLast).before.buffer) # <<>>
    /\ Len(Unwrap(tLast).out) = 3
    /\ ~Unwrap(tLast).panic
    /\ IsSome(tInner.buffer)
    /\ Unwrap(tInner.buffer) # <<>>
    /\ tInner.stream # <<>>

\* The entries optimize_diff_entries is meant to leave alone: not a
\* modified directory, not a created directory with an entry inside it,
\* not a removed file inside a removed directory.
Keepable(entries, e) ==
    /\ ~(e.file_type = "Directory" /\ e.diff_type.tag = "Modified")
    /\ ~(/\ e.file_type = "Directory"
         /\ e.diff_type.tag = "Created"
         /\ \E k \in 1..Len(entries) :
               /\ entries[k].path # e.path
               /\ starts_with(entries[k].path, e.path))
    /\ ~(/\ e.file_type = "RegularFile"
         /\ e.diff_type.tag = "Removed"
         /\ \E k \in 1..Len(entries) :
               /\ entries[k].path # e.path
               /\ entries[k].file_type = "Directory"
               /\ entries[k].diff_type.tag = "Removed"
               /\ starts_with(e.path, entries[k].path))

UploadStates(p) ==
    {st \in {persistent_data[p], new_data[p]} : st.step = "Upload"}
    \cup (IF /\ IsSome(data[p].backup_step)
             /\ Unwrap(data[p].backup_step).step = "Upload"
          THEN {Unwrap(data[p].backup_step)}
          ELSE {})

\* 0 <= uploaded_objects <= total_objects_count in every Upload state.
UploadedWithinTotal ==
    \A p \in Procs : \A st \in UploadStates(p) :
        /\ st.uploaded_objects >= 0
        /\ st.uploaded_objects <= TotalObjectsCount(config, st.diff)

\* From one do_step to the next the count stays or grows by one, and an
\* Upload step that uploads a part hands back the count plus one, as
\* UpdateHotData when that was the last part.
UploadedGrowsByOne ==
    \A p \in Procs :
        /\ (/\ persistent_data[p].step = "Upload"
            /\ persistent_data'[p].step = "Upload"
            /\ persistent_data'[p].snapshot_name = persistent_data[p].snapshot_name)
              => persistent_data'[p].uploaded_objects \in
                    {persistent_data[p].uploaded_objects,
                     persistent_data[p].uploaded_objects + 1}
        /\ (/\ pc[p] = "do_step"
            /\ persistent_data[p].step = "Upload"
            /\ pc'[p] = "save"
            /\ persistent_data[p].uploaded_objects
                  < TotalObjectsCount(config, persistent_data[p].diff))
              => IF persistent_data[p].uploaded_objects + 1
                       = TotalObjectsCount(config, persistent_data[p].diff)
                 THEN new_data'[p].step = "UpdateHotData"
                 ELSE /\ new_data'[p].step = "Upload"
                      /\ new_data'[p].uploaded_objects
                            = persistent_data[p].uploaded_objects + 1

\* An Upload step with a part left does not fail by itself: with the
\* bucket, zfs and the files answering, it uploads the part.
UploadStepCanSucceed ==
    \A p \in Procs :
        (/\ pc[p] = "do_step"
         /\ persistent_data[p].step = "Upload"
         /\ persistent_data[p].uploaded_objects
               < TotalObjectsCount(config, persistent_data[p].diff))
           => ~NoRemoteHotData(p)

\* The part of C40 about the count alone (this part holds).
C40_CountWithinTotalGrowsByOne ==
    [][UploadedWithinTotal /\ UploadedGrowsByOne]_vars

\* C40: in every Upload state of runs with one config the count of
\* uploaded parts is between 0 and the total, it never goes down and grows
\* by one with each part uploaded, and so, when nothing outside fails, every
\* Upload step uploads its part and the driver gets to Finished.
C40_UploadCountsUpToFinished ==
    [][UploadedWithinTotal /\ UploadedGrowsByOne /\ UploadStepCanSucceed]_vars

====
